---- MODULE Spec2Model ----
(***************************************************************************)
(* Model of the transaction pipeline of akash_api:                         *)
(*   AkashAsyncClient      (src/python/src/akash_api/async_client.py)      *)
(*   AkashTransactionSigner, Wallet (src/python/src/akash_api/transaction.py) *)
(*                                                                         *)
(* Every create_deployment / create_bid / create_lease call is a coroutine *)
(* on one asyncio event loop.  A coroutine runs without interleaving from  *)
(* one await that suspends to the next, so each call is three actions:     *)
(*   Call            - the guards and the account GET being issued         *)
(*   AccountResponse - the GET's answer, then message building, assembly,  *)
(*                     signing and the broadcast POST being issued         *)
(*   BroadcastResponse - the POST's answer and its interpretation          *)
(* The REST node, the RPC node and the chain behind them are the           *)
(* environment.                                                            *)
(*                                                                         *)
(* Python values: None is the empty sequence <<>> and a present value v is *)
(* <<v>>; a str that the code edits is a sequence of one-character         *)
(* strings; a dict built by the code is a record; a dict handed in by the  *)
(* caller is a sequence of <<key, value>> pairs in insertion order.        *)
(***************************************************************************)
EXTENDS Integers, Sequences, FiniteSets, TLC

\* -------------------------------------------------------------- field names
\* The keys of the dicts, JSON objects and dataclasses of the model.  TLC keeps
\* a record's fields in the order of their first mention, so with this one
\* mention every record below is written in its stored order.
FieldNames ==
    [ok |-> 0, private_key |-> 0, rpc_endpoint |-> 0, name |-> 0,
     signed_by |-> 0, all_of |-> 0, cpu |-> 0, denom |-> 0, type |-> 0,
     owner |-> 0, signer_infos |-> 0, single |-> 0, mode |-> 0, pytype |-> 0,
     body_bytes |-> 0, jsonrpc |-> 0, tx |-> 0, none |-> 0, kind |-> 0,
     transport |-> 0, account |-> 0, code |-> 0, height |-> 0, error |-> 0,
     result |-> 0, hash |-> 0, val |-> 0, public_key |-> 0,
     requirements |-> 0, quantity |-> 0, any_of |-> 0, memory |-> 0,
     order |-> 0, bid_id |-> 0, key |-> 0, dseq |-> 0, data |-> 0,
     auth_info_bytes |-> 0, id |-> 0, wallet |-> 0, signed_tx |-> 0,
     delivered |-> 0, message |-> 0, exc |-> 0, address |-> 0,
     mode_info |-> 0, resources |-> 0, storage |-> 0, provider |-> 0,
     digest |-> 0, chain_id |-> 0, groups |-> 0, method |-> 0, messages |-> 0,
     transaction |-> 0, payload |-> 0, status |-> 0, detail |-> 0,
     count |-> 0, k |-> 0, gas_price |-> 0, account_number |-> 0,
     version |-> 0, params |-> 0, sign_doc |-> 0, tx_info |-> 0, amount |-> 0,
     is_json |-> 0, value |-> 0, price |-> 0, sequence |-> 0, fee |-> 0,
     deposit |-> 0, signed |-> 0, gas_limit |-> 0, body |-> 0, memo |-> 0,
     depositor |-> 0, payer |-> 0, auth_info |-> 0, timeout_height |-> 0,
     granter |-> 0, signatures |-> 0, extension_options |-> 0,
     non_critical_extension_options |-> 0,
     private_key_hex |-> 0, sdl |-> 0, bidder |-> 0, order_id |-> 0, signer |-> 0,
     endpoint |-> 0, max_retries |-> 0, credentials |-> 0, channel |-> 0,
     deployment_stub |-> 0, market_stub |-> 0, provider_stub |-> 0,
     cert_stub |-> 0, secure |-> 0, state |-> 0, client |-> 0, channels |-> 0,
     deployments |-> 0, bids |-> 0, leases |-> 0, providers |-> 0,
     certificates |-> 0, pagination |-> 0, next_key |-> 0,
     res |-> 0, attempts |-> 0, sleeps |-> 0]

\* ------------------------------------------------------------------ bounds
\* Number of create_* calls (coroutines) that may run on the event loop.
NumOps == 2

\* ------------------------------------------------------- program constants
DefaultGasDeployment == 300000
DefaultGasBidLease == 200000
DefaultMaxRetries == 3

Ops == 1..NumOps

None == <<>>
Some(v) == <<v>>
IsNone(o) == Len(o) = 0
IsSome(o) == Len(o) > 0
Get(o) == o[1]

\* ------------------------------------------------------------ str helpers
UAKT == <<"u", "a", "k", "t">>

DigitChars == <<"0", "1", "2", "3", "4", "5", "6", "7", "8", "9">>

\* str(n): the decimal digits of n, after a minus sign when n < 0.
RECURSIVE Str(_)
Str(n) == IF n < 0 THEN <<"-">> \o Str(-n)
          ELSE IF n < 10 THEN <<DigitChars[n + 1]>>
          ELSE Str(n \div 10) \o <<DigitChars[(n % 10) + 1]>>

IsDigit(c) == \E i \in 1..10 : DigitChars[i] = c
DigitVal(c) == (CHOOSE i \in 1..10 : DigitChars[i] = c) - 1

\* int(s) succeeds on a non-empty string of digits (ValueError otherwise).
IntParses(s) == Len(s) > 0 /\ \A i \in 1..Len(s) : IsDigit(s[i])

RECURSIVE ParseInt(_)
ParseInt(s) == IF Len(s) = 0 THEN 0
               ELSE 10 * ParseInt(SubSeq(s, 1, Len(s) - 1)) + DigitVal(s[Len(s)])

HasPrefix(s, pat) == Len(s) >= Len(pat) /\ SubSeq(s, 1, Len(pat)) = pat

\* s.replace(pat, ""): every non-overlapping occurrence of pat, left to right.
RECURSIVE Remove(_, _)
Remove(s, pat) ==
    IF Len(s) = 0 THEN <<>>
    ELSE IF HasPrefix(s, pat) THEN Remove(SubSeq(s, Len(pat) + 1, Len(s)), pat)
    ELSE <<s[1]>> \o Remove(Tail(s), pat)

\* ----------------------------------------------------------- dict helpers
\* Keys the callers' dicts use, in the order sort_keys puts them.
KeyOrder == <<"dseq", "gseq", "obj", "oseq", "owner", "provider", "version">>
KeyRank(k) == CHOOSE i \in 1..Len(KeyOrder) : KeyOrder[i] = k

\* A value json.dumps cannot serialize (a set, bytes, an object).
Unserializable == "<object>"
Serializable(d) == \A i \in 1..Len(d) : d[i][2] # Unserializable

\* The pairs of dict d with the keys in sorted order (json.dumps sort_keys=True).
RECURSIVE SortKeys(_)
SortKeys(d) ==
    IF Len(d) = 0 THEN <<>>
    ELSE LET m == CHOOSE i \in 1..Len(d) :
                      \A j \in 1..Len(d) : KeyRank(d[i][1]) <= KeyRank(d[j][1])
             rest == [j \in 1..(Len(d) - 1) |-> IF j < m THEN d[j] ELSE d[j + 1]]
         IN <<d[m]>> \o SortKeys(rest)

\* Results of a step: a value, or the exception it raised.
Ok(v) == [ok |-> TRUE, val |-> <<v>>, exc |-> "", detail |-> <<>>]
Err(e, d) == [ok |-> FALSE, val |-> <<>>, exc |-> e, detail |-> d]

\* ---------------------------------------------------------------- Wallet
\* The compressed public key of a private key, and the address of a public
\* key: injective derivations (SHA-256, RIPEMD-160 and Bech32 are not
\* expanded).
PubKeyOf(private_key) == <<"secp256k1", private_key>>
AddressOf(public_key) == <<"akash", public_key>>

\* A Wallet dataclass instance; the fields are whatever the constructor got.
MakeWallet(private_key) ==
    [private_key |-> private_key,
     public_key |-> PubKeyOf(private_key),
     address |-> AddressOf(PubKeyOf(private_key))]

\* Private keys that are valid secp256k1 scalars.
ValidKeys == {"k1", "k2", "k3"}

W1 == MakeWallet("k1")
W2 == MakeWallet("k2")
W3 == MakeWallet("k3")

\* bytes.fromhex and ecdsa.SigningKey.from_string, for Wallet.from_private_key.
HexChars == <<"0", "1", "2", "3", "4", "5", "6", "7", "8", "9",
              "a", "b", "c", "d", "e", "f", "A", "B", "C", "D", "E", "F">>
IsHex(c) == \E i \in 1..Len(HexChars) : HexChars[i] = c
HexVal(c) == LET i == CHOOSE j \in 1..Len(HexChars) : HexChars[j] = c
             IN IF i <= 16 THEN i - 1 ELSE i - 7

\* bytes.fromhex(s): whitespace between the bytes is skipped, each byte is two
\* hexadecimal digits, anything else is a ValueError.
RECURSIVE fromhex(_)
fromhex(s) ==
    IF Len(s) = 0 THEN Ok(<<>>)
    ELSE IF s[1] = " " THEN fromhex(Tail(s))
    ELSE IF Len(s) < 2 \/ ~IsHex(s[1]) \/ ~IsHex(s[2]) THEN Err("ValueError", <<"fromhex">>)
    ELSE LET rest == fromhex(SubSeq(s, 3, Len(s)))
         IN IF ~rest.ok THEN rest
            ELSE Ok(<<16 * HexVal(s[1]) + HexVal(s[2])>> \o Get(rest.val))

\* The byte length of a secp256k1 scalar (curve.baselen).
BaseLen == 32

\* The order n of secp256k1, big-endian.
CurveOrder ==
    <<255, 255, 255, 255, 255, 255, 255, 255, 255, 255, 255, 255, 255, 255, 255, 254,
      186, 174, 220, 230, 175, 72, 160, 59, 191, 210, 94, 140, 208, 54, 65, 65>>

\* a < b for big-endian byte strings of one length.
BytesLess(a, b) ==
    \E i \in 1..Len(a) : a[i] < b[i] /\ \A j \in 1..(i - 1) : a[j] = b[j]

\* SigningKey.from_string(string, curve=SECP256k1): the length must be
\* baselen and the number must be in 1..n-1.
signing_key_from_string(string) ==
    IF Len(string) # BaseLen THEN Err("MalformedPointError", <<"length">>)
    ELSE IF (\A i \in 1..Len(string) : string[i] = 0) \/ ~BytesLess(string, CurveOrder)
    THEN Err("MalformedPointError", <<"range">>)
    ELSE Ok(string)

\* verifying_key.to_string(): the 64 bytes x || y of the point secexp * G.
\* The multiplication is not expanded: byte i of the point of a scalar is a
\* value of its own, and the parity of y is the parity of the scalar's last
\* byte.
verifying_key_to_string(secexp) ==
    [i \in 1..(2 * BaseLen) |->
        IF i = 2 * BaseLen THEN secexp[BaseLen] % 2 ELSE <<"point", i, secexp>>]

\* public_key_bytes (line 72): 0x02 or 0x03 by the parity of the last byte
\* of y, then the 32 bytes of x.
compressed_public_key(vk_string) ==
    IF vk_string[63 + 1] % 2 = 0
    THEN <<2>> \o SubSeq(vk_string, 1, 32)
    ELSE <<3>> \o SubSeq(vk_string, 1, 32)

\* Wallet.from_private_key: any exception of the body comes out as
\* AkashTransactionError.
from_private_key(crypto_available, private_key_hex) ==
    IF ~crypto_available
    THEN Err("AkashTransactionError", <<"Cryptography libraries required">>)
    ELSE LET private_key_bytes == fromhex(private_key_hex)
         IN IF ~private_key_bytes.ok
            THEN Err("AkashTransactionError",
                     <<"Failed to create wallet from private key: ", private_key_bytes.exc>>)
            ELSE LET signing_key == signing_key_from_string(Get(private_key_bytes.val))
                 IN IF ~signing_key.ok
                    THEN Err("AkashTransactionError",
                             <<"Failed to create wallet from private key: ",
                               signing_key.exc>>)
                    ELSE LET public_key_bytes ==
                                 compressed_public_key(
                                     verifying_key_to_string(Get(signing_key.val)))
                         IN Ok([private_key |-> Get(private_key_bytes.val),
                                public_key |-> public_key_bytes,
                                address |-> AddressOf(public_key_bytes)])

\* ------------------------------------------------- AkashTransactionSigner
\* The signer object: its three attributes, set once by __init__.
GasPriceDefault == <<"0", ".", "0", "2", "5", "u", "a", "k", "t">>

NewSigner(rpc_endpoint, chain_id) ==
    [rpc_endpoint |-> rpc_endpoint, chain_id |-> chain_id, gas_price |-> GasPriceDefault]

\* TransactionInfo as the callers make it: fee is the empty dict they pass,
\* memo the default.
TransactionInfo(chain_id, account_number, sequence) ==
    [chain_id |-> chain_id, account_number |-> account_number,
     sequence |-> sequence, fee |-> <<>>, memo |-> ""]

\* _sdl_to_groups: the placeholder, one fixed group whatever the SDL is.
sdl_to_groups(sdl) ==
    <<[name |-> "default",
       requirements |-> [signed_by |-> [all_of |-> <<>>, any_of |-> <<>>]],
       resources |-> <<[resources |-> [cpu |-> "1000", memory |-> "1073741824",
                                       storage |-> <<[name |-> "default",
                                                      quantity |-> "1073741824"]>>],
                        count |-> 1,
                        price |-> [denom |-> "uakt", amount |-> "1000"]]>>]>>

\* create_deployment_msg.  sdl is a caller's dict; deposit is None or a str.
\* The dict literal evaluates "version" (json.dumps(sdl)) before "deposit".
create_deployment_msg(owner, sdl, deposit) ==
    IF ~Serializable(sdl) THEN Err("TypeError", <<"create_deployment_msg">>)
    ELSE IF IsNone(deposit) THEN Err("AttributeError", <<"create_deployment_msg">>)
    ELSE Ok([type |-> "/akash.deployment.v1beta3.MsgCreateDeployment",
             id |-> [owner |-> owner, dseq |-> "0"],
             groups |-> sdl_to_groups(sdl),
             version |-> <<"b64", <<"json", sdl>>>>,
             deposit |-> [denom |-> "uakt", amount |-> Remove(Get(deposit), UAKT)],
             depositor |-> owner])

\* create_bid_msg.  order_id is a caller's dict, stored as it is.
create_bid_msg(bidder, order_id, price) ==
    IF IsNone(price) THEN Err("AttributeError", <<"create_bid_msg">>)
    ELSE Ok([type |-> "/akash.market.v1beta4.MsgCreateBid",
             order |-> order_id,
             provider |-> bidder,
             price |-> [denom |-> "uakt", amount |-> Remove(Get(price), UAKT)]])

\* create_lease_msg: tenant and provider are not used.
create_lease_msg(tenant, provider, bid_id) ==
    Ok([type |-> "/akash.market.v1beta4.MsgCreateLease", bid_id |-> bid_id])

\* float(s) for a decimal string "i" or "i.fff", in thousandths.
ParseMilli(s) ==
    IF \A i \in 1..Len(s) : s[i] # "." THEN 1000 * ParseInt(s)
    ELSE LET dot == CHOOSE i \in 1..Len(s) : s[i] = "."
             int == SubSeq(s, 1, dot - 1)
             frac == SubSeq(s, dot + 1, Len(s))
             pad == frac \o [i \in 1..(3 - Len(frac)) |-> "0"]
         IN 1000 * ParseInt(int) + ParseInt(pad)

\* int(x) for x = milli / 1000: the fraction is cut off, towards zero.
IntOfMilli(milli) ==
    IF milli >= 0 THEN milli \div 1000 ELSE -((-milli) \div 1000)

\* int(float(gas_price.replace("uakt", "")) * gas_limit).
gas_amount(gas_price, gas_limit) ==
    IntOfMilli(ParseMilli(Remove(gas_price, UAKT)) * gas_limit)

\* A mutant of the body's message list: the messages in reverse order.
body_messages_reversed(messages) ==
    [i \in 1..Len(messages) |-> messages[Len(messages) + 1 - i]]

\* The "messages" entry of the body: the caller's list, as it is.
body_messages(messages) == messages

\* create_transaction.  gas_limit is None (a value float cannot multiply) or
\* an integer.  messages is stored as given; nothing is validated.
create_transaction(signer, wallet, messages, tx_info, gas_limit) ==
    IF IsNone(gas_limit) THEN Err("TypeError", <<"create_transaction">>)
    ELSE Ok([body |-> [messages |-> body_messages(messages),
                       memo |-> tx_info.memo,
                       timeout_height |-> "0",
                       extension_options |-> <<>>,
                       non_critical_extension_options |-> <<>>],
             auth_info |->
                 [signer_infos |->
                      <<[public_key |-> [type |-> "/cosmos.crypto.secp256k1.PubKey",
                                         key |-> <<"b64", wallet.public_key>>],
                         mode_info |-> [single |-> [mode |-> "SIGN_MODE_DIRECT"]],
                         sequence |-> Str(tx_info.sequence)]>>,
                  fee |-> [amount |-> <<[denom |-> "uakt",
                                         amount |-> Str(gas_amount(signer.gas_price,
                                                                   Get(gas_limit)))]>>,
                           gas_limit |-> Str(Get(gas_limit)),
                           payer |-> "",
                           granter |-> ""]],
             signatures |-> <<>>])

\* SHA-256, an injective digest.
SHA256(data) == <<"sha256", data>>

\* json.dumps(message, sort_keys=True): the caller's dict inside a message
\* comes out with its keys sorted.
CanonMessage(msg) ==
    IF msg.type = "/akash.market.v1beta4.MsgCreateBid"
    THEN [msg EXCEPT !.order = SortKeys(@)]
    ELSE IF msg.type = "/akash.market.v1beta4.MsgCreateLease"
    THEN [msg EXCEPT !.bid_id = SortKeys(@)]
    ELSE msg

MessageSerializable(msg) ==
    IF msg.type = "/akash.market.v1beta4.MsgCreateBid" THEN Serializable(msg.order)
    ELSE IF msg.type = "/akash.market.v1beta4.MsgCreateLease" THEN Serializable(msg.bid_id)
    ELSE TRUE

\* _encode_body: json.dumps(body, sort_keys=True).encode(), a bytes object.
encode_body(body) ==
    IF \E i \in 1..Len(body.messages) : ~MessageSerializable(body.messages[i])
    THEN Err("TypeError", <<"_encode_body">>)
    ELSE Ok([pytype |-> "bytes",
             data |-> <<"json_sorted",
                        [body EXCEPT !.messages =
                             [i \in 1..Len(body.messages) |-> CanonMessage(body.messages[i])]]>>])

\* _encode_auth_info: json.dumps(auth_info, sort_keys=True).encode().
encode_auth_info(auth_info) ==
    Ok([pytype |-> "bytes", data |-> <<"json_sorted", auth_info>>])

\* json.dumps(sign_doc, sort_keys=True, separators=(',', ':')).encode():
\* the encoder raises TypeError on a value of type bytes.
json_dumps_sign_doc(sign_doc) ==
    IF \E f \in DOMAIN sign_doc : sign_doc[f].pytype = "bytes"
    THEN Err("TypeError", <<"sign_transaction">>)
    ELSE Ok(<<"json_sorted_compact", sign_doc>>)

\* ecdsa.SigningKey.sign(data, hashfunc=sha256): hashes data, then signs the
\* digest with the nonce k.
ecdsa_sign(private_key, data, k) ==
    [key |-> private_key, digest |-> SHA256(data), k |-> k]

\* The sign_doc dict of sign_transaction (lines 261-266).
sign_doc_of(body_bytes, auth_info_bytes, tx_info) ==
    [body_bytes |-> body_bytes,
     auth_info_bytes |-> auth_info_bytes,
     chain_id |-> [pytype |-> "str", data |-> tx_info.chain_id],
     account_number |-> [pytype |-> "str", data |-> Str(tx_info.account_number)]]

\* sign_transaction, with k the nonce the ecdsa library draws.  The value is
\* the transaction dict with its "signatures" entry replaced.
sign_transaction(signer, wallet, transaction, tx_info, k) ==
    LET body_bytes == encode_body(transaction.body)
        auth_info_bytes == encode_auth_info(transaction.auth_info)
    IN IF ~body_bytes.ok THEN body_bytes
       ELSE LET sign_bytes == json_dumps_sign_doc(
                    sign_doc_of(Get(body_bytes.val), Get(auth_info_bytes.val), tx_info))
            IN IF ~sign_bytes.ok THEN sign_bytes
               ELSE IF wallet.private_key \notin ValidKeys
               THEN Err("MalformedPointError", <<"sign_transaction">>)
               ELSE Ok([transaction EXCEPT !.signatures =
                            << <<"b64", ecdsa_sign(wallet.private_key,
                                                   SHA256(Get(sign_bytes.val)), k)>> >>])

\* The JSON-RPC envelope of broadcast_transaction (lines 293-300);
\* json.dumps(signed_tx) keeps insertion order and raises on a value it
\* cannot serialize.
broadcast_data(signed_tx) ==
    IF \E i \in 1..Len(signed_tx.body.messages) :
           ~MessageSerializable(signed_tx.body.messages[i])
    THEN Err("TypeError", <<"broadcast_transaction">>)
    ELSE Ok([jsonrpc |-> "2.0", id |-> 1, method |-> "broadcast_tx_commit",
             params |-> [tx |-> <<"b64", <<"json", signed_tx>>>>]])

\* A broadcast that sends the envelope again (a retry).
broadcast_posts_retry(envelope) == <<envelope, envelope>>

\* The POST requests one broadcast_transaction call issues for an envelope.
broadcast_posts(envelope) == <<envelope>>

\* How broadcast_transaction ends for a round trip r (lines 302-309).
\* r.transport is "ok" when a response arrived; r.status is not looked at.
broadcast_result(r) ==
    IF r.transport = "conn_fail" THEN Err("ClientConnectorError", <<>>)
    ELSE IF r.transport = "timeout" THEN Err("TimeoutError", <<>>)
    ELSE IF ~r.is_json THEN Err("ContentTypeError", <<>>)
    ELSE IF "error" \in DOMAIN r.body
    THEN Err("AkashTransactionError", <<"Broadcast failed: ", <<"str", r.body.error>>>>)
    ELSE IF "result" \in DOMAIN r.body THEN Ok(r.body.result)
    ELSE Err("KeyError", <<"result">>)

\* --------------------------------------------------------- AkashGrpcClient
GrpcEndpoint == "grpc:9090"

\* What the process can import: grpcio and the generated service modules
\* (GRPC_AVAILABLE and PROTOBUF_AVAILABLE, lines 13-30).
GrpcLibs == {"ok", "no_grpcio", "no_protobuf"}

\* AkashGrpcClient.__init__: no channel and no stub yet.
NewGrpcClient(grpc_libs, grpc_endpoint, max_retries, credentials) ==
    IF grpc_libs = "no_grpcio"
    THEN Err("AkashGrpcClientError", <<"grpcio is required for gRPC support">>)
    ELSE IF grpc_libs = "no_protobuf"
    THEN Err("AkashGrpcClientError", <<"Protobuf services not available">>)
    ELSE Ok([endpoint |-> grpc_endpoint, max_retries |-> max_retries,
             credentials |-> credentials, channel |-> None,
             deployment_stub |-> None, market_stub |-> None,
             provider_stub |-> None, cert_stub |-> None])

\* The channels the grpc library has made are numbered in the order of their
\* creation; chans[i] is the state of channel i.
NewChannel(client) ==
    [endpoint |-> client.endpoint, secure |-> IsSome(client.credentials),
     state |-> "open"]

\* A _get_channel that makes a channel for every call.
get_channel_always_new(client, chans) ==
    [client |-> [client EXCEPT !.channel = Some(Len(chans) + 1)],
     channels |-> Append(chans, NewChannel(client))]

\* _get_channel up to its yield (lines 81-88): the client's channel, made
\* first if there is none.
get_channel(client, chans) ==
    IF IsNone(client.channel)
    THEN [client |-> [client EXCEPT !.channel = Some(Len(chans) + 1)],
          channels |-> Append(chans, NewChannel(client))]
    ELSE [client |-> client, channels |-> chans]

\* The stub attribute each method caches its service stub in.
StubOf(kind) ==
    IF kind \in {"query_deployments", "stream_deployment_events"} THEN "deployment_stub"
    ELSE IF kind \in {"query_bids", "query_leases"} THEN "market_stub"
    ELSE IF kind = "query_providers" THEN "provider_stub"
    ELSE "cert_stub"

\* `if self._x_stub is None: self._x_stub = x_grpc.QueryStub(channel)`: a stub
\* is the channel it was made on.
with_stub(client, stub) ==
    IF IsNone(client[stub]) THEN [client EXCEPT ![stub] = client.channel] ELSE client

\* The placeholder responses of the query methods.
Placeholder(kind) ==
    IF kind = "query_deployments"
    THEN [deployments |-> <<>>, pagination |-> [next_key |-> None]]
    ELSE IF kind = "query_bids" THEN [bids |-> <<>>, pagination |-> [next_key |-> None]]
    ELSE IF kind = "query_leases" THEN [leases |-> <<>>, pagination |-> [next_key |-> None]]
    ELSE IF kind = "query_providers"
    THEN [providers |-> <<>>, pagination |-> [next_key |-> None]]
    ELSE [certificates |-> <<>>, pagination |-> [next_key |-> None]]

\* The body of the try of query_deployments (lines 143-148): the gRPC call is
\* commented out and the placeholder is returned.
query_deployments_try == Ok(Placeholder("query_deployments"))

\* A coroutine that ran off its end: the caller gets None.
returned_nothing == [kind |-> "return", exc |-> "", detail |-> <<>>, value |-> None]

Pow2(n) == 2 ^ n

\* `for attempt in range(self.max_retries)` from attempt on (lines 141-153),
\* with the sleeps made so far: how the call ends, the attempts made and the
\* seconds slept after each failed one.
RECURSIVE retry_loop(_, _, _)
retry_loop(max_retries, attempt, slept) ==
    IF attempt >= max_retries
    THEN [res |-> returned_nothing, attempts |-> attempt, sleeps |-> slept]
    ELSE LET r == query_deployments_try
         IN IF r.ok
            THEN [res |-> [kind |-> "return", exc |-> "", detail |-> <<>>,
                           value |-> r.val],
                  attempts |-> attempt + 1, sleeps |-> slept]
            ELSE IF attempt = max_retries - 1
            THEN [res |-> [kind |-> "raise", exc |-> "AkashGrpcClientError",
                           detail |-> <<"Query failed">>,
                           value |-> None],
                  attempts |-> attempt + 1, sleeps |-> slept]
            ELSE retry_loop(max_retries, attempt + 1, Append(slept, Pow2(attempt)))

\* How a query method ends once it has its channel and stub.
query_result(client, kind) ==
    IF kind = "query_deployments" THEN retry_loop(client.max_retries, 0, <<>>).res
    ELSE [kind |-> "return", exc |-> "", detail |-> <<>>,
          value |-> Some(Placeholder(kind))]

\* -------------------------------------------------------- AkashAsyncClient
ChainId == "akashnet-2"
RestEndpoint == "https://rest"
RpcEndpoint == "https://rpc"

\* _get_account_info after the GET came back as r (lines 343-351):
\* raise_for_status, then the account fields with 0 as the default.
account_info(r) ==
    IF r.transport = "conn_fail" THEN Err("ClientConnectorError", <<>>)
    ELSE IF r.transport = "timeout" THEN Err("TimeoutError", <<>>)
    ELSE IF r.status >= 400 THEN Err("ClientResponseError", <<r.status>>)
    ELSE LET account == IF "account" \in DOMAIN r.body THEN r.body.account
                        ELSE [none |-> TRUE]
             number == IF "account_number" \in DOMAIN account
                       THEN Some(account.account_number) ELSE None
             seq == IF "sequence" \in DOMAIN account THEN Some(account.sequence)
                    ELSE None
         IN IF IsSome(number) /\ ~IntParses(Get(number)) THEN Err("ValueError", <<>>)
            ELSE IF IsSome(seq) /\ ~IntParses(Get(seq)) THEN Err("ValueError", <<>>)
            ELSE Ok([account_number |-> IF IsSome(number) THEN ParseInt(Get(number)) ELSE 0,
                     sequence |-> IF IsSome(seq) THEN ParseInt(Get(seq)) ELSE 0])

\* The message a create_* method builds from its arguments c.
build_msg(c) ==
    IF c.kind = "create_deployment"
    THEN create_deployment_msg(c.wallet.address, c.payload, c.amount)
    ELSE IF c.kind = "create_bid"
    THEN create_bid_msg(c.wallet.address, c.payload, c.amount)
    ELSE create_lease_msg(c.wallet.address, c.wallet.address, c.payload)

\* A TransactionInfo that ignores the account_info (account 0, sequence 0).
tx_info_of_defaults(chain_id, info) == TransactionInfo(chain_id, 0, 0)

\* The TransactionInfo a create_* method builds from its account_info.
tx_info_of(chain_id, info) ==
    TransactionInfo(chain_id, info.account_number, info.sequence)

\* create_* from the account_info on (lines 241-260 and the like): message,
\* tx_info, create_transaction, sign_transaction, each run only when the one
\* before returned.  The value tells how far it got: the transaction
\* create_transaction returned, if any, and the result of the last step run.
pipeline(signer, chain_id, c, info, k) ==
    LET msg == build_msg(c)
        tx_info == tx_info_of(chain_id, info)
    IN IF ~msg.ok
       THEN [transaction |-> None, sign_doc |-> None, signed |-> msg]
       ELSE LET transaction == create_transaction(signer, c.wallet, <<Get(msg.val)>>,
                                                  tx_info, c.gas_limit)
            IN IF ~transaction.ok
               THEN [transaction |-> None, sign_doc |-> None, signed |-> transaction]
               ELSE [transaction |-> transaction.val,
                     sign_doc |->
                         LET b == encode_body(Get(transaction.val).body)
                             a == encode_auth_info(Get(transaction.val).auth_info)
                         IN IF b.ok THEN Some(sign_doc_of(Get(b.val), Get(a.val), tx_info))
                            ELSE None,
                     signed |-> sign_transaction(signer, c.wallet, Get(transaction.val),
                                                 tx_info, k)]

\* An exception caught and dropped: the caller gets None back.
raised_swallowed(res) == [kind |-> "return", exc |-> "", detail |-> <<>>, value |-> None]

\* The exception a coroutine ends with, as its caller sees it.
raised(res) == [kind |-> "raise", exc |-> res.exc, detail |-> res.detail, value |-> None]
returned(v) == [kind |-> "return", exc |-> "", detail |-> <<>>, value |-> Some(v)]

\* A query URL with the address of the first wallet used, whatever is asked.
account_url_first(rest_endpoint, address) ==
    <<rest_endpoint, "/cosmos/auth/v1beta1/accounts/", AddressOf(PubKeyOf("k1"))>>

\* The URL _get_account_info queries: the address it was called with.
account_url(rest_endpoint, address) ==
    <<rest_endpoint, "/cosmos/auth/v1beta1/accounts/", address>>

\* ------------------------------------------------------------ environment
\* The chain behind the REST and RPC endpoints.  W1 and W2 have accounts,
\* W3 has none yet.
OnChain == {W1.address, W2.address}
AccountNumberOf(a) == IF a = W1.address THEN 5 ELSE 7
InitSequenceOf(a) == IF a = W1.address THEN 2 ELSE 0

\* The digest the chain verifies a signature against.
ChainDigest(tx, account_number) ==
    SHA256(<<"SignDoc", tx.body, tx.auth_info, ChainId, account_number>>)

\* A signature made outside this library, the way the chain expects it.
ExternalSignature(wallet, tx, account_number) ==
    <<"b64", [key |-> wallet.private_key, digest |-> ChainDigest(tx, account_number),
              k |-> "ext"]>>

SignerAddress(tx) == AddressOf(tx.auth_info.signer_infos[1].public_key.key[2])
SignerSequence(tx) == ParseInt(tx.auth_info.signer_infos[1].sequence)

\* The chain commits tx when the signer's account exists, the sequence is the
\* account's next one and the one signature verifies.
ChainAccepts(tx, seqs) ==
    LET a == SignerAddress(tx)
    IN /\ a \in OnChain
       /\ SignerSequence(tx) = seqs[a]
       /\ Len(tx.signatures) = 1
       /\ LET sig == tx.signatures[1][2]
          IN /\ sig.key \in ValidKeys
             /\ AddressOf(PubKeyOf(sig.key)) = a
             /\ sig.digest = ChainDigest(tx, AccountNumberOf(a))

TxHash(tx) == <<"hash", SignerAddress(tx), SignerSequence(tx)>>

\* The answers the REST node can give to the account query for address a.
AccountRoundTrips(a, seqs) ==
    {[transport |-> "conn_fail", status |-> 0, body |-> [none |-> TRUE]],
     [transport |-> "ok", status |-> 500, body |-> [none |-> TRUE]]}
    \cup (IF a \in OnChain
          THEN {[transport |-> "ok", status |-> 200,
                 body |-> [account |-> [address |-> a,
                                        account_number |-> Str(AccountNumberOf(a)),
                                        sequence |-> Str(seqs[a])]]]}
          ELSE {[transport |-> "ok", status |-> 404, body |-> [code |-> 5]],
                [transport |-> "ok", status |-> 200, body |-> [height |-> "1"]]})

\* The ways one POST of tx to the RPC endpoint can end.  delivered tells
\* whether the chain got the transaction; a gateway in front of the node may
\* answer for it with a 5xx.
BroadcastRoundTrips(tx, seqs) ==
    {[transport |-> "conn_fail", delivered |-> FALSE, status |-> 0, is_json |-> FALSE,
      body |-> [none |-> TRUE]],
     [transport |-> "timeout", delivered |-> TRUE, status |-> 0, is_json |-> FALSE,
      body |-> [none |-> TRUE]],
     [transport |-> "ok", delivered |-> FALSE, status |-> 502, is_json |-> FALSE,
      body |-> [none |-> TRUE]],
     [transport |-> "ok", delivered |-> FALSE, status |-> 503, is_json |-> TRUE,
      body |-> [error |-> [code |-> 503, message |-> "service unavailable"]]],
     IF ChainAccepts(tx, seqs)
     THEN [transport |-> "ok", delivered |-> TRUE, status |-> 200, is_json |-> TRUE,
           body |-> [result |-> [hash |-> TxHash(tx)]]]
     ELSE [transport |-> "ok", delivered |-> TRUE, status |-> 200, is_json |-> TRUE,
           body |-> [error |-> [code |-> 32, message |-> "rejected by the chain"]]]}

\* ------------------------------------------------------------------ inputs
SdlOk == << <<"version", "2.0">> >>
OrderOk == << <<"owner", "akash1x">>, <<"dseq", "1">> >>
NotJson == << <<"obj", Unserializable>> >>
Amount == Some(<<"5", "u", "a", "k", "t">>)

CreateCall(kind, wallet, payload, amount, gas_limit) ==
    [kind |-> kind, wallet |-> wallet, payload |-> payload, amount |-> amount,
     gas_limit |-> gas_limit]

\* The create_* calls tried: good ones for each method, one for a wallet
\* with no account yet, and ones whose message building or assembly fails.
CreateCalls ==
    {CreateCall("create_deployment", W1, SdlOk, Amount, Some(DefaultGasDeployment)),
     CreateCall("create_bid", W1, OrderOk, Amount, Some(DefaultGasBidLease)),
     CreateCall("create_lease", W2, OrderOk, None, Some(DefaultGasBidLease)),
     CreateCall("create_deployment", W3, SdlOk, Amount, Some(DefaultGasDeployment)),
     CreateCall("create_deployment", W2, NotJson, Amount, Some(DefaultGasDeployment)),
     CreateCall("create_lease", W1, OrderOk, None, None)}

\* A signer made by create_signer, used without the client.
StandaloneSigner == NewSigner(RpcEndpoint, ChainId)

\* A lease transaction of wallet w with sequence seq, assembled by
\* create_transaction; signed outside the library when ext holds.
HandMadeTx(w, seq, ext) ==
    LET tx == Get(create_transaction(
                      StandaloneSigner, w,
                      <<Get(create_lease_msg(w.address, w.address, OrderOk).val)>>,
                      TransactionInfo(ChainId, AccountNumberOf(w.address), seq),
                      Some(DefaultGasBidLease)).val)
    IN IF ext
       THEN [tx EXCEPT !.signatures =
                 <<ExternalSignature(w, tx, AccountNumberOf(w.address))>>]
       ELSE tx

\* The transactions handed to broadcast_transaction directly: W1's with its
\* next sequence and with the one after, and an unsigned one of W2.
BroadcastCalls ==
    {[kind |-> "broadcast_transaction", signed_tx |-> HandMadeTx(W1, seq, TRUE)] :
        seq \in {InitSequenceOf(W1.address), InitSequenceOf(W1.address) + 1}}
    \cup {[kind |-> "broadcast_transaction",
           signed_tx |-> HandMadeTx(W2, InitSequenceOf(W2.address), FALSE)]}

\* Direct calls of the two synchronous methods.
SyncCalls ==
    {[kind |-> "create_transaction", wallet |-> W1,
      messages |-> <<Get(create_lease_msg(W1.address, W1.address, OrderOk).val)>>,
      tx_info |-> TransactionInfo(ChainId, 5, 2), gas_limit |-> Some(DefaultGasBidLease)],
     [kind |-> "sign_transaction", wallet |-> W1,
      transaction |-> HandMadeTx(W1, 2, FALSE),
      tx_info |-> TransactionInfo(ChainId, 5, 2)]}

\* The nonces the ecdsa library may draw.
Nonces == {"n1", "n2"}

\* ------------------------------------------------------------------- state
VARIABLES
    libs,                \* AIOHTTP_AVAILABLE and CRYPTO_AVAILABLE of the process
    rpc_endpoint,        \* AkashAsyncClient.rpc_endpoint: None or the URL
    ctx,                 \* where the client's async context is
    rest_session,        \* AkashAsyncClient._rest_session
    transaction_signer,  \* AkashAsyncClient._transaction_signer
    pc,                  \* per call: idle, resolving, broadcasting, done
    call,                \* per call: its arguments
    signed_tx,           \* per call: the signed_tx local of the suspended coroutine
    outcome,             \* per call: what the caller got, once done
    restGets,            \* per call: account queries issued
    restAnswer,          \* per call: how the account query's round trip ended
    gotAccount,          \* per call: what its _get_account_info returned
    assembled,           \* per call: what its create_transaction returned
    signDoc,             \* per call: the sign_doc its sign_transaction built
    rpcPosts,            \* per call: the POSTs issued, in order
    rpcAnswer,           \* per call: how the POST's round trip ended
    chainSeq,            \* the chain: next sequence of each account
    committed,           \* the chain: calls whose transaction it committed
    grpc_libs,           \* GRPC_AVAILABLE and PROTOBUF_AVAILABLE of the process
    grpc_endpoint,       \* AkashAsyncClient.grpc_endpoint: None or the address
    grpc_client,         \* the AkashGrpcClient: AkashAsyncClient._grpc_client,
                         \* or one the caller made; None or its attributes
    channels             \* the grpc library: the state of each channel made

grpcVars == <<grpc_libs, grpc_endpoint, grpc_client, channels>>
clientVars == <<libs, rpc_endpoint, ctx, rest_session, transaction_signer, grpcVars>>
callVars == <<pc, call, signed_tx, outcome>>
traceVars == <<restGets, restAnswer, gotAccount, assembled, signDoc, rpcPosts, rpcAnswer>>
chainVars == <<chainSeq, committed>>
vars == <<clientVars, callVars, traceVars, chainVars>>

\* The client and its calls before anything ran, whatever gRPC is there.
InitBase ==
    /\ libs \in [aiohttp : BOOLEAN, crypto : BOOLEAN]
    /\ rpc_endpoint \in {None, Some(RpcEndpoint)}
    /\ ctx = "new"
    /\ rest_session = "none"
    /\ transaction_signer = None
    /\ pc = [p \in Ops |-> "idle"]
    /\ call = [p \in Ops |-> None]
    /\ signed_tx = [p \in Ops |-> None]
    /\ outcome = [p \in Ops |-> None]
    /\ restGets = [p \in Ops |-> 0]
    /\ restAnswer = [p \in Ops |-> None]
    /\ gotAccount = [p \in Ops |-> None]
    /\ assembled = [p \in Ops |-> None]
    /\ signDoc = [p \in Ops |-> None]
    /\ rpcPosts = [p \in Ops |-> <<>>]
    /\ rpcAnswer = [p \in Ops |-> None]
    /\ chainSeq = [a \in OnChain |-> InitSequenceOf(a)]
    /\ committed = {}
    /\ channels = <<>>

\* A client made without a gRPC endpoint.
Init ==
    /\ InitBase
    /\ grpc_libs = "ok"
    /\ grpc_endpoint = None
    /\ grpc_client = None

\* ----------------------------------------------------------------- actions
\* AkashAsyncClient.__aenter__: the session is opened and put on the exit
\* stack, then the gRPC client is made and put on it, then the signer is made.
\* A constructor that raises (missing gRPC or crypto libraries) makes
\* __aenter__ raise with what was opened before left as it is.
AEnter ==
    /\ ctx = "new"
    /\ rest_session' = IF libs.aiohttp THEN "open" ELSE "none"
    /\ LET g == IF IsSome(grpc_endpoint)
                THEN NewGrpcClient(grpc_libs, Get(grpc_endpoint), DefaultMaxRetries, None)
                ELSE Err("", <<>>)
       IN IF IsSome(grpc_endpoint) /\ ~g.ok
          THEN ctx' = "enter_failed" /\ UNCHANGED <<grpc_client, transaction_signer>>
          ELSE /\ grpc_client' = IF IsSome(grpc_endpoint) THEN g.val ELSE grpc_client
               /\ IF IsSome(rpc_endpoint) /\ ~libs.crypto
                  THEN ctx' = "enter_failed" /\ UNCHANGED transaction_signer
                  ELSE /\ ctx' = "entered"
                       /\ transaction_signer' =
                              IF IsSome(rpc_endpoint)
                              THEN Some(NewSigner(Get(rpc_endpoint), ChainId))
                              ELSE None
    /\ UNCHANGED <<libs, rpc_endpoint, grpc_libs, grpc_endpoint, channels, callVars,
                   traceVars, chainVars>>

\* The states of a call that is suspended at an await.
InFlight == {"resolving", "broadcasting", "getting", "closing", "checking", "streaming"}

\* AkashGrpcClient.close with nothing else running: the channel, if there is
\* one, is closed and forgotten.
closed_client(client) == [client EXCEPT !.channel = None]
closed_channels(client, chans) ==
    IF IsSome(client.channel)
    THEN [chans EXCEPT ![Get(client.channel)].state = "closed"]
    ELSE chans

\* AkashAsyncClient.__aexit__: the exit stack closes the gRPC client and then
\* the session.  The body of the async with has awaited its calls.
AExit ==
    /\ ctx = "entered"
    /\ \A p \in Ops : pc[p] \notin InFlight
    /\ ctx' = "exited"
    /\ rest_session' = IF rest_session = "open" THEN "closed" ELSE rest_session
    /\ IF IsSome(grpc_client)
       THEN /\ grpc_client' = Some(closed_client(Get(grpc_client)))
            /\ channels' = closed_channels(Get(grpc_client), channels)
       ELSE UNCHANGED <<grpc_client, channels>>
    /\ UNCHANGED <<libs, rpc_endpoint, transaction_signer, grpc_libs, grpc_endpoint,
                   callVars, traceVars, chainVars>>

\* Calls are numbered in the order they are made: call p is the next one.
IsNextCall(p) == pc[p] = "idle" /\ \A q \in 1..(p - 1) : pc[q] # "idle"

\* The coroutine of call p ends: its locals go, the caller gets out.
Finish(p, out) ==
    /\ pc' = [pc EXCEPT ![p] = "done"]
    /\ outcome' = [outcome EXCEPT ![p] = Some(out)]
    /\ signed_tx' = [signed_tx EXCEPT ![p] = None]

\* broadcast_transaction up to the POST being sent (lines 291-303).
StartBroadcast(p, tx) ==
    IF ~libs.aiohttp
    THEN Finish(p, raised(Err("ImportError", <<"aiohttp">>))) /\ UNCHANGED rpcPosts
    ELSE LET envelope == broadcast_data(tx)
         IN IF ~envelope.ok
            THEN Finish(p, raised(envelope)) /\ UNCHANGED rpcPosts
            ELSE /\ rpcPosts' = [rpcPosts EXCEPT ![p] = broadcast_posts(Get(envelope.val))]
                 /\ pc' = [pc EXCEPT ![p] = "broadcasting"]
                 /\ signed_tx' = [signed_tx EXCEPT ![p] = Some(tx)]
                 /\ UNCHANGED outcome

\* create_deployment / create_bid / create_lease up to the account query
\* being sent (lines 235-239 and 338-343).
CallCreate(p, c) ==
    /\ IsNextCall(p)
    /\ call' = [call EXCEPT ![p] = Some(c)]
    /\ IF IsNone(transaction_signer)
       THEN /\ Finish(p, raised(Err("AkashAsyncClientError",
                                    <<"RPC endpoint not configured for transactions">>)))
            /\ UNCHANGED restGets
       ELSE IF rest_session = "none"
       THEN /\ Finish(p, raised(Err("AkashAsyncClientError",
                                    <<"REST session not available">>)))
            /\ UNCHANGED restGets
       ELSE IF rest_session = "closed"
       THEN /\ Finish(p, raised(Err("RuntimeError", <<"Session is closed">>)))
            /\ UNCHANGED restGets
       ELSE /\ restGets' = [restGets EXCEPT ![p] = @ + 1]
            /\ pc' = [pc EXCEPT ![p] = "resolving"]
            /\ UNCHANGED <<signed_tx, outcome>>
    /\ UNCHANGED <<clientVars, restAnswer, gotAccount, assembled, signDoc, rpcPosts,
                   rpcAnswer, chainVars>>

\* The account query of call p comes back as r; the coroutine runs on to its
\* next await: the broadcast POST, or the exception that ends it.
AccountResponse(p) ==
    /\ pc[p] = "resolving"
    /\ \E k \in Nonces :
       \E r \in AccountRoundTrips(account_url(RestEndpoint,
                                              Get(call[p]).wallet.address)[3], chainSeq) :
       LET c == Get(call[p])
           info == account_info(r)
       IN /\ restAnswer' = [restAnswer EXCEPT ![p] = Some(r)]
          /\ IF ~info.ok
             THEN /\ Finish(p, raised(info))
                  /\ UNCHANGED <<gotAccount, assembled, signDoc, rpcPosts>>
             ELSE LET pl == pipeline(Get(transaction_signer), ChainId, c,
                                     Get(info.val), k)
                  IN /\ gotAccount' = [gotAccount EXCEPT ![p] = info.val]
                     /\ assembled' = [assembled EXCEPT ![p] = pl.transaction]
                     /\ signDoc' = [signDoc EXCEPT ![p] = pl.sign_doc]
                     /\ IF ~pl.signed.ok
                        THEN Finish(p, raised(pl.signed)) /\ UNCHANGED rpcPosts
                        ELSE StartBroadcast(p, Get(pl.signed.val))
    /\ UNCHANGED <<clientVars, call, restGets, rpcAnswer, chainVars>>

\* broadcast_transaction called on a signer directly.
CallBroadcast(p, c) ==
    /\ IsNextCall(p)
    /\ libs.crypto
    /\ call' = [call EXCEPT ![p] = Some(c)]
    /\ StartBroadcast(p, c.signed_tx)
    /\ UNCHANGED <<clientVars, restGets, restAnswer, gotAccount, assembled, signDoc,
                   rpcAnswer, chainVars>>

\* The POST of call p ends as r (lines 303-309); the chain has committed the
\* transaction if it got it and accepts it.
BroadcastResponse(p) ==
    /\ pc[p] = "broadcasting"
    /\ \E r \in BroadcastRoundTrips(Get(signed_tx[p]), chainSeq) :
       LET tx == Get(signed_tx[p])
           res == broadcast_result(r)
       IN /\ rpcAnswer' = [rpcAnswer EXCEPT ![p] = Some(r)]
          /\ IF r.delivered /\ ChainAccepts(tx, chainSeq)
             THEN /\ chainSeq' = [chainSeq EXCEPT ![SignerAddress(tx)] = @ + 1]
                  /\ committed' = committed \cup {p}
             ELSE UNCHANGED chainVars
          /\ Finish(p, IF res.ok THEN returned(Get(res.val)) ELSE raised(res))
    /\ UNCHANGED <<clientVars, call, restGets, restAnswer, gotAccount, assembled, signDoc,
                   rpcPosts>>

\* create_transaction or sign_transaction called on a signer directly: one
\* synchronous step.
CallSync(p, c, k) ==
    /\ IsNextCall(p)
    /\ libs.crypto
    /\ call' = [call EXCEPT ![p] = Some(c)]
    /\ LET res == IF c.kind = "create_transaction"
                  THEN create_transaction(StandaloneSigner, c.wallet, c.messages,
                                          c.tx_info, c.gas_limit)
                  ELSE sign_transaction(StandaloneSigner, c.wallet, c.transaction,
                                        c.tx_info, k)
       IN Finish(p, IF res.ok THEN returned(Get(res.val)) ELSE raised(res))
    /\ UNCHANGED <<clientVars, traceVars, chainVars>>

Next ==
    \/ AEnter
    \/ AExit
    \/ \E p \in Ops : \E c \in CreateCalls : CallCreate(p, c)
    \/ \E p \in Ops : AccountResponse(p)
    \/ \E p \in Ops : \E c \in BroadcastCalls : CallBroadcast(p, c)
    \/ \E p \in Ops : BroadcastResponse(p)
    \/ \E p \in Ops : \E c \in SyncCalls : \E k \in Nonces : CallSync(p, c, k)

Spec == Init /\ [][Next]_vars

\* ------------------------------------------- the library called directly
\* A signer with a gas price of the caller's choice (the third argument of
\* AkashTransactionSigner).
SignerWith(gas_price) == [StandaloneSigner EXCEPT !.gas_price = gas_price]

\* s repeated n times.
RECURSIVE Rep(_, _)
Rep(s, n) == IF n = 0 THEN <<>> ELSE s \o Rep(s, n - 1)

\* bytes.hex(): two lower-case digits a byte.
HexOf(bytes) ==
    IF Len(bytes) = 0 THEN <<>>
    ELSE [i \in 1..(2 * Len(bytes)) |->
             IF i % 2 = 1 THEN HexChars[(bytes[(i + 1) \div 2] \div 16) + 1]
             ELSE HexChars[(bytes[i \div 2] % 16) + 1]]

\* The hex strings given to Wallet.from_private_key: good keys (lower case,
\* upper case, the scalars 1 and n - 1), the scalars 0, n and 2^256 - 1, 31 and
\* 33 bytes, an odd number of digits, a digit that is none, the empty string.
KeyInputs ==
    {Rep(<<"1">>, 64),
     Rep(<<"A", "B">>, 32),
     Rep(<<"0">>, 63) \o <<"1">>,
     HexOf([CurveOrder EXCEPT ![32] = 64]),
     Rep(<<"0">>, 64),
     HexOf(CurveOrder),
     Rep(<<"f">>, 64),
     Rep(<<"1">>, 62),
     Rep(<<"1">>, 66),
     Rep(<<"1">>, 63),
     <<"z", "z">> \o Rep(<<"1">>, 62),
     <<>>}

\* The same bid id with its keys inserted in the other order.
OrderPermuted == << <<"dseq", "1">>, <<"owner", "akash1x">> >>

MsgLease == Get(create_lease_msg(W1.address, W1.address, OrderOk).val)
MsgLeasePermuted == Get(create_lease_msg(W1.address, W1.address, OrderPermuted).val)
MsgBid == Get(create_bid_msg(W1.address, OrderOk, Amount).val)

\* The amounts given as deposit and price: a good one, no number, another
\* denomination, no number before the denomination.
AmountInputs ==
    {<<"5", "u", "a", "k", "t">>,
     <<"a", "b", "c">>,
     <<"5", "u", "a", "t", "o", "m">>,
     <<"u", "a", "k", "t">>}

\* The gas prices and gas limits tried with create_transaction.
GasPriceInputs == {GasPriceDefault, <<"0", ".", "5", "u", "a", "k", "t">>,
                   <<"2", "u", "a", "k", "t">>}

CreateTransactionCall(gas_price, messages, sequence, gas_limit) ==
    [kind |-> "create_transaction", wallet |-> W1, messages |-> messages,
     tx_info |-> TransactionInfo(ChainId, AccountNumberOf(W1.address), sequence),
     gas_limit |-> Some(gas_limit), signer |-> SignerWith(gas_price)]

\* create_transaction calls: one and two messages in both orders, no
\* message, gas limits that are not positive, two sequences, and products of
\* gas price and gas limit that are not whole numbers.
CreateTransactionCalls ==
    {CreateTransactionCall(GasPriceDefault, msgs, 2, DefaultGasBidLease) :
        msgs \in {<<>>, <<MsgLease>>, <<MsgLease, MsgBid>>, <<MsgBid, MsgLease>>}}
    \cup {CreateTransactionCall(GasPriceDefault, <<MsgLease>>, 3, DefaultGasBidLease)}
    \cup {CreateTransactionCall(GasPriceDefault, <<MsgLease>>, 2, g) : g \in {-1, 0, 1}}
    \cup {CreateTransactionCall(gp, <<MsgLease>>, 2, 41) : gp \in GasPriceInputs}

\* The transaction create_transaction returns for messages and a sequence.
Assembled(messages, sequence) ==
    Get(create_transaction(StandaloneSigner, W1, messages,
                           TransactionInfo(ChainId, AccountNumberOf(W1.address), sequence),
                           Some(DefaultGasBidLease)).val)

SignTransactionCall(messages, sequence) ==
    [kind |-> "sign_transaction", wallet |-> W1,
     transaction |-> Assembled(messages, sequence),
     tx_info |-> TransactionInfo(ChainId, AccountNumberOf(W1.address), sequence),
     signer |-> StandaloneSigner]

\* sign_transaction given a tx_info whose sequence is not the one the
\* transaction was assembled with.
SignTransactionCallOtherSequence(messages, sequence, other) ==
    [SignTransactionCall(messages, sequence) EXCEPT
         !.tx_info = TransactionInfo(ChainId, AccountNumberOf(W1.address), other)]

\* Every call of the library tried on its own.
LibCalls ==
    {[kind |-> "from_private_key", private_key_hex |-> h] : h \in KeyInputs}
    \cup {[owner |-> W1.address, kind |-> "create_deployment_msg", deposit |-> Some(x),
           sdl |-> SdlOk] : x \in AmountInputs}
    \cup {[kind |-> "create_bid_msg", price |-> Some(x), bidder |-> W1.address,
           order_id |-> OrderOk] : x \in AmountInputs}
    \cup CreateTransactionCalls
    \cup {SignTransactionCall(<<MsgLease>>, 2), SignTransactionCall(<<MsgLease>>, 3),
          SignTransactionCall(<<MsgLeasePermuted>>, 2),
          SignTransactionCallOtherSequence(<<MsgLease>>, 2, 3)}
    \cup {[kind |-> "_encode_body", body |-> Assembled(<<m>>, 2).body] :
              m \in {MsgLease, MsgLeasePermuted}}
    \cup {[kind |-> "_encode_auth_info", auth_info |-> Assembled(<<MsgLease>>, seq).auth_info] :
              seq \in {2, 3}}

\* What the call c returns or raises; k is the nonce the ecdsa library draws.
lib_call(crypto_available, c, k) ==
    IF c.kind = "from_private_key" THEN from_private_key(crypto_available, c.private_key_hex)
    ELSE IF c.kind = "create_deployment_msg"
    THEN create_deployment_msg(c.owner, c.sdl, c.deposit)
    ELSE IF c.kind = "create_bid_msg" THEN create_bid_msg(c.bidder, c.order_id, c.price)
    ELSE IF c.kind = "create_transaction"
    THEN create_transaction(c.signer, c.wallet, c.messages, c.tx_info, c.gas_limit)
    ELSE IF c.kind = "sign_transaction"
    THEN sign_transaction(c.signer, c.wallet, c.transaction, c.tx_info, k)
    ELSE IF c.kind = "_encode_body" THEN encode_body(c.body)
    ELSE encode_auth_info(c.auth_info)

\* One call of a function of the library: a synchronous step.  A signer, and
\* so its methods, exists only where the crypto libraries do.
CallLib(p, c, k) ==
    /\ IsNextCall(p)
    /\ c.kind # "from_private_key" => libs.crypto
    /\ call' = [call EXCEPT ![p] = Some(c)]
    /\ LET res == lib_call(libs.crypto, c, k)
       IN Finish(p, IF res.ok THEN returned(Get(res.val)) ELSE raised(res))
    /\ UNCHANGED <<clientVars, traceVars, chainVars>>

SignerNext == \E p \in Ops : \E c \in LibCalls : \E k \in Nonces : CallLib(p, c, k)

\* The library without a client: no RPC endpoint is configured, and aiohttp,
\* which no call here uses, is there.
SignerInit == Init /\ IsNone(rpc_endpoint) /\ libs.aiohttp

SignerSpec == SignerInit /\ [][SignerNext]_vars

\* ------------------------------------------ the gRPC client called directly
\* Bounds: the max_retries a client is made with, and how many channels the
\* grpc library is asked for in a run.
MaxRetries == 3
MaxChannels == 3

QueryKinds == {"query_deployments", "query_bids", "query_leases", "query_providers",
               "query_certificates"}

\* Some call on the gRPC client is suspended at an await.
GrpcBusy == \E q \in Ops : pc[q] \in {"closing", "checking", "streaming"}

\* A gRPC client call begins.  The calls on one gRPC client are made one
\* after another: the caller awaits each before it makes the next.
BeginGrpc(p, c) ==
    /\ IsNextCall(p)
    /\ ~GrpcBusy
    /\ call' = [call EXCEPT ![p] = Some(c)]

\* The call may ask for a channel: the client has one, or the library still
\* hands out new ones.
ChannelAvailable ==
    IsSome(Get(grpc_client).channel) \/ Len(channels) < MaxChannels

sessionVars == <<libs, rpc_endpoint, ctx, rest_session, transaction_signer>>
grpcConfig == <<grpc_libs, grpc_endpoint>>

\* The body of a query method, which has no await: channel, stub, result.
RunQuery(p, kind) ==
    LET g == get_channel(Get(grpc_client), channels)
        client == with_stub(g.client, StubOf(kind))
    IN /\ grpc_client' = Some(client)
       /\ channels' = g.channels
       /\ Finish(p, query_result(client, kind))

\* AkashGrpcClient.query_deployments / query_bids / query_leases /
\* query_providers / query_certificates.
GrpcQuery(p, kind) ==
    /\ IsSome(grpc_client) /\ ChannelAvailable
    /\ BeginGrpc(p, [kind |-> kind])
    /\ RunQuery(p, kind)
    /\ UNCHANGED <<sessionVars, grpcConfig, traceVars, chainVars>>

\* The body of stream_deployment_events up to its first yield.
RunStream(p) ==
    LET g == get_channel(Get(grpc_client), channels)
    IN /\ grpc_client' = Some(with_stub(g.client, "deployment_stub"))
       /\ channels' = g.channels
       /\ pc' = [pc EXCEPT ![p] = "streaming"]
       /\ UNCHANGED <<signed_tx, outcome>>

\* AkashGrpcClient.stream_deployment_events, iterated by its caller.
StreamStart(p) ==
    /\ IsSome(grpc_client) /\ ChannelAvailable
    /\ BeginGrpc(p, [kind |-> "stream_deployment_events"])
    /\ RunStream(p)
    /\ UNCHANGED <<sessionVars, grpcConfig, traceVars, chainVars>>

\* The generator has yielded its five placeholder events and ends.
StreamEnd(p) ==
    /\ pc[p] = "streaming"
    /\ Finish(p, returned(<<"deployment_event_0", "deployment_event_1",
                            "deployment_event_2", "deployment_event_3",
                            "deployment_event_4">>))
    /\ UNCHANGED <<clientVars, call, traceVars, chainVars>>

\* AkashGrpcClient.health_check up to `await channel.channel_ready()`; the
\* call keeps the channel it waits on.
HealthCheckStart(p) ==
    /\ IsSome(grpc_client) /\ ChannelAvailable
    /\ LET g == get_channel(Get(grpc_client), channels)
       IN /\ BeginGrpc(p, [kind |-> "health_check", channel |-> g.client.channel])
          /\ grpc_client' = Some(g.client)
          /\ channels' = g.channels
    /\ pc' = [pc EXCEPT ![p] = "checking"]
    /\ UNCHANGED <<sessionVars, grpcConfig, signed_tx, outcome, traceVars, chainVars>>

\* channel_ready() ends: True when the channel got ready, False on any
\* exception, which a closed channel raises.
HealthCheckEnd(p) ==
    /\ pc[p] = "checking"
    /\ \E ready \in BOOLEAN :
          /\ ready => channels[Get(Get(call[p]).channel)].state = "open"
          /\ Finish(p, returned(ready))
    /\ UNCHANGED <<clientVars, call, traceVars, chainVars>>

\* AkashGrpcClient.close (also __aexit__) up to `await self._channel.close()`:
\* the channel stops taking calls.  Without a channel the call returns at
\* once.
CloseStart(p) ==
    /\ IsSome(grpc_client)
    /\ BeginGrpc(p, [kind |-> "close", channel |-> Get(grpc_client).channel])
    /\ IF IsNone(Get(grpc_client).channel)
       THEN Finish(p, returned_nothing) /\ UNCHANGED channels
       ELSE /\ channels' = closed_channels(Get(grpc_client), channels)
            /\ pc' = [pc EXCEPT ![p] = "closing"]
            /\ UNCHANGED <<signed_tx, outcome>>
    /\ UNCHANGED <<sessionVars, grpcConfig, grpc_client, traceVars, chainVars>>

\* The await of close is over: `self._channel = None`.
CloseEnd(p) ==
    /\ pc[p] = "closing"
    /\ grpc_client' = Some(closed_client(Get(grpc_client)))
    /\ Finish(p, returned_nothing)
    /\ UNCHANGED <<sessionVars, grpcConfig, channels, call, traceVars, chainVars>>

\* The caller lets go of the result of its finished call p and goes on
\* making calls.
Release(p) ==
    /\ pc[p] = "done"
    /\ pc' = [pc EXCEPT ![p] = "idle"]
    /\ call' = [call EXCEPT ![p] = None]
    /\ outcome' = [outcome EXCEPT ![p] = None]
    /\ UNCHANGED <<clientVars, signed_tx, traceVars, chainVars>>

\* One caller makes call after call on the gRPC client; the call it is at is
\* kept as call 1.
GrpcNext ==
    \/ \E kind \in QueryKinds : GrpcQuery(1, kind)
    \/ StreamStart(1)
    \/ StreamEnd(1)
    \/ HealthCheckStart(1)
    \/ HealthCheckEnd(1)
    \/ CloseStart(1)
    \/ CloseEnd(1)
    \/ Release(1)

\* An AkashGrpcClient made by its caller, with or without credentials.
GrpcInit ==
    /\ InitBase
    /\ libs = [aiohttp |-> TRUE, crypto |-> TRUE]
    /\ IsNone(rpc_endpoint)
    /\ grpc_libs = "ok"
    /\ grpc_endpoint = None
    /\ \E max_retries \in 0..MaxRetries : \E credentials \in {None, Some("tls")} :
          grpc_client = NewGrpcClient(grpc_libs, GrpcEndpoint, max_retries, credentials).val

GrpcSpec == GrpcInit /\ [][GrpcNext]_vars

\* ------------------------------------------- the client with all it offers
GetKinds == {"get_deployments", "get_providers", "get_bids", "get_leases"}

\* The answers the REST node can give to a list query.
GetRoundTrips(kind) ==
    {[transport |-> "conn_fail", status |-> 0, body |-> [none |-> TRUE]],
     [transport |-> "ok", status |-> 500, body |-> [none |-> TRUE]],
     [transport |-> "ok", status |-> 200,
      body |-> IF kind = "get_deployments" THEN [deployments |-> <<>>]
               ELSE IF kind = "get_providers" THEN [providers |-> <<>>]
               ELSE IF kind = "get_bids" THEN [bids |-> <<>>]
               ELSE [leases |-> <<>>]]}

\* get_* after its GET came back as r: raise_for_status, then the JSON body.
get_result(r) ==
    IF r.transport = "conn_fail" THEN Err("ClientConnectorError", <<>>)
    ELSE IF r.status >= 400 THEN Err("ClientResponseError", <<r.status>>)
    ELSE Ok(r.body)

\* `if not self._rest_session: raise ...` of the get_* methods.
require_rest_session(session) ==
    IF session = "none"
    THEN Err("AkashAsyncClientError",
             <<"Client not properly initialized. Use async context manager.">>)
    ELSE Ok(session)

\* get_deployments / get_providers / get_bids / get_leases up to the GET
\* being sent; aiohttp refuses a request on a closed session.
CallGet(p, kind) ==
    /\ IsNextCall(p)
    /\ call' = [call EXCEPT ![p] = Some([kind |-> kind])]
    /\ LET session == require_rest_session(rest_session)
       IN IF ~session.ok
          THEN Finish(p, raised(session)) /\ UNCHANGED restGets
          ELSE IF rest_session = "closed"
          THEN /\ Finish(p, raised(Err("RuntimeError", <<"Session is closed">>)))
               /\ UNCHANGED restGets
          ELSE /\ restGets' = [restGets EXCEPT ![p] = @ + 1]
               /\ pc' = [pc EXCEPT ![p] = "getting"]
               /\ UNCHANGED <<signed_tx, outcome>>
    /\ UNCHANGED <<clientVars, restAnswer, gotAccount, assembled, signDoc, rpcPosts,
                   rpcAnswer, chainVars>>

\* The GET of call p comes back.
GetResponse(p) ==
    /\ pc[p] = "getting"
    /\ \E r \in GetRoundTrips(Get(call[p]).kind) :
          /\ restAnswer' = [restAnswer EXCEPT ![p] = Some(r)]
          /\ LET res == get_result(r)
             IN Finish(p, IF res.ok THEN returned(Get(res.val)) ELSE raised(res))
    /\ UNCHANGED <<clientVars, call, restGets, gotAccount, assembled, signDoc, rpcPosts,
                   rpcAnswer, chainVars>>

\* An AkashAsyncClient without the guard: the call goes to the attribute,
\* which is None.
require_grpc_client_unguarded(client) ==
    IF IsNone(client)
    THEN Err("AttributeError", <<"'NoneType' object has no attribute">>)
    ELSE Ok(Get(client))

\* `if not self._grpc_client: raise ...` of the grpc_query_* methods and of
\* stream_deployment_events.
require_grpc_client(client) ==
    IF IsNone(client) THEN Err("AkashAsyncClientError", <<"gRPC endpoint not configured">>)
    ELSE Ok(Get(client))

ClientQueryKinds == {"grpc_query_deployments", "grpc_query_bids", "grpc_query_leases",
                     "grpc_query_providers"}

\* The AkashGrpcClient method a grpc_query_* method hands its call to.
Delegate(kind) ==
    IF kind = "grpc_query_deployments" THEN "query_deployments"
    ELSE IF kind = "grpc_query_bids" THEN "query_bids"
    ELSE IF kind = "grpc_query_leases" THEN "query_leases"
    ELSE "query_providers"

\* AkashAsyncClient.grpc_query_deployments / _bids / _leases / _providers.
ClientGrpcQuery(p, kind) ==
    /\ IsSome(grpc_client) => ChannelAvailable
    /\ BeginGrpc(p, [kind |-> kind])
    /\ IF ~require_grpc_client(grpc_client).ok
       THEN /\ Finish(p, raised(require_grpc_client(grpc_client)))
            /\ UNCHANGED <<grpc_client, channels>>
       ELSE RunQuery(p, Delegate(kind))
    /\ UNCHANGED <<sessionVars, grpcConfig, traceVars, chainVars>>

\* AkashAsyncClient.stream_deployment_events, iterated by its caller: the
\* guard runs at the first iteration.
ClientStreamStart(p) ==
    /\ IsSome(grpc_client) => ChannelAvailable
    /\ BeginGrpc(p, [kind |-> "client_stream_deployment_events"])
    /\ IF ~require_grpc_client(grpc_client).ok
       THEN /\ Finish(p, raised(require_grpc_client(grpc_client)))
            /\ UNCHANGED <<grpc_client, channels>>
       ELSE RunStream(p)
    /\ UNCHANGED <<sessionVars, grpcConfig, traceVars, chainVars>>

ClientNext ==
    \/ AEnter
    \/ AExit
    \/ \E p \in Ops : \E c \in CreateCalls : CallCreate(p, c)
    \/ \E p \in Ops : AccountResponse(p)
    \/ \E p \in Ops : \E kind \in GetKinds : CallGet(p, kind)
    \/ \E p \in Ops : GetResponse(p)
    \/ \E p \in Ops : \E kind \in ClientQueryKinds : ClientGrpcQuery(p, kind)
    \/ \E p \in Ops : ClientStreamStart(p)
    \/ \E p \in Ops : StreamEnd(p)

\* A client made with or without a gRPC endpoint, in a process with or
\* without the gRPC libraries.
ClientInit ==
    /\ InitBase
    /\ grpc_libs \in GrpcLibs
    /\ grpc_endpoint \in {None, Some(GrpcEndpoint)}
    /\ grpc_client = None

ClientSpec == ClientInit /\ [][ClientNext]_vars

\* The same client in a process where every library is installed.
InstalledInit ==
    /\ ClientInit
    /\ libs = [aiohttp |-> TRUE, crypto |-> TRUE]
    /\ grpc_libs = "ok"

InstalledSpec == InstalledInit /\ [][ClientNext]_vars

\* ------------------------------------------------------- claims: vocabulary
CreateKinds == {"create_deployment", "create_bid", "create_lease"}
IsCreate(p) == IsSome(call[p]) /\ Get(call[p]).kind \in CreateKinds
IsBroadcast(p) == IsSome(call[p]) /\ Get(call[p]).kind = "broadcast_transaction"
IsSync(p) ==
    IsSome(call[p]) /\ Get(call[p]).kind \in {"create_transaction", "sign_transaction"}
Done(p) == pc[p] = "done"
Out(p) == Get(outcome[p])

\* The account a call is about.
CallAddress(p) ==
    IF Get(call[p]).kind = "broadcast_transaction"
    THEN SignerAddress(Get(call[p]).signed_tx)
    ELSE Get(call[p]).wallet.address

\* The POST of call p was answered by the node over a working connection
\* with a 2xx status.
AnsweredByNode(p) ==
    /\ IsSome(rpcAnswer[p])
    /\ Get(rpcAnswer[p]).transport = "ok"
    /\ Get(rpcAnswer[p]).status \in 200..299

\* Exceptions that tell the caller the network failed.
NetworkErrors == {"NetworkError", "ClientConnectorError", "TimeoutError", "ContentTypeError"}
\* Exceptions that tell the caller the chain rejected the transaction.
RejectionErrors == {"ChainRejectionError", "AkashTransactionError"}

\* ---------------------------------------------------------------------- C1
\* C1: a create_deployment call with a valid key, a serializable SDL, a
\* deposit and a gas limit, whose account query returned the account and
\* whose RPC endpoint answers nothing but a result, ends by returning that
\* result with its hash.
C1_EndToEndSuccess ==
    \A p \in Ops :
        (/\ Done(p)
         /\ IsSome(call[p])
         /\ Get(call[p]).kind = "create_deployment"
         /\ Get(call[p]).wallet.private_key \in ValidKeys
         /\ build_msg(Get(call[p])).ok
         /\ IsSome(Get(call[p]).gas_limit)
         /\ IsSome(restAnswer[p])
         /\ "account" \in DOMAIN Get(restAnswer[p]).body
         /\ IsSome(gotAccount[p])
         /\ (IsSome(rpcAnswer[p]) => /\ AnsweredByNode(p)
                                     /\ "result" \in DOMAIN Get(rpcAnswer[p]).body))
        => /\ Out(p).kind = "return"
           /\ "hash" \in DOMAIN Get(Out(p).value)

C3_SequenceRaceOutcome ==
    \A p, q \in Ops :
        (/\ p < q
         /\ IsCreate(p) /\ IsCreate(q)
         /\ Done(p) /\ Done(q)
         /\ CallAddress(p) = CallAddress(q)
         /\ IsSome(signDoc[p]) /\ IsSome(signDoc[q])
         /\ SignerSequence(Get(assembled[p])) = SignerSequence(Get(assembled[q]))
         /\ \A x \in {p, q} : IsSome(rpcAnswer[x]) => AnsweredByNode(x))
        => /\ ~(Out(p).kind = "return" /\ Out(q).kind = "return")
           /\ \E x \in {p, q} : Out(x).kind = "raise" /\ Out(x).exc \in RejectionErrors

\* ---------------------------------------------------------------------- C4
\* C4: a broadcast answered with an "error" field ends in ChainRejectionError
\* carrying exactly the code and the message of that field.
C4_RejectionParsing ==
    \A p \in Ops :
        (/\ Done(p)
         /\ IsSome(rpcAnswer[p])
         /\ Get(rpcAnswer[p]).transport = "ok"
         /\ Get(rpcAnswer[p]).is_json
         /\ "error" \in DOMAIN Get(rpcAnswer[p]).body)
        => /\ Out(p).kind = "raise"
           /\ Out(p).exc = "ChainRejectionError"
           /\ Out(p).detail = <<Get(rpcAnswer[p]).body.error.code,
                                Get(rpcAnswer[p]).body.error.message>>

\* ---------------------------------------------------------------------- C5
\* C5: a broadcast whose round trip failed at transport level (no connection,
\* a timeout, a status outside 2xx) ends in a network error, never in a
\* result and never in the error of a chain rejection.
C5_TransportClassification ==
    \A p \in Ops :
        (Done(p) /\ IsSome(rpcAnswer[p]) /\ ~AnsweredByNode(p))
        => /\ Out(p).kind = "raise"
           /\ Out(p).exc \in NetworkErrors
           /\ Out(p).exc \notin RejectionErrors

\* ---------------------------------------------------------------------- C6
\* C6: a call never has more than one POST, an answered broadcast has exactly
\* one, and a create_transaction or sign_transaction call has no POST and no
\* GET.
C6_NoInternalRetry ==
    \A p \in Ops :
        /\ Len(rpcPosts[p]) <= 1
        /\ IsSome(rpcAnswer[p]) => Len(rpcPosts[p]) = 1
        /\ IsSync(p) => Len(rpcPosts[p]) = 0 /\ restGets[p] = 0

\* One broadcast returned the result and another was rejected by the chain,
\* each after exactly one POST.
C6_Witness ==
    \E p, q \in Ops :
        /\ IsBroadcast(p) /\ Done(p) /\ Out(p).kind = "return" /\ Len(rpcPosts[p]) = 1
        /\ IsBroadcast(q) /\ Done(q) /\ Out(q).kind = "raise" /\ Len(rpcPosts[q]) = 1
        /\ Out(q).exc = "AkashTransactionError"

\* ---------------------------------------------------------------------- C7
\* C7: in a create_* call the account is resolved by the call's one GET
\* before anything is assembled, the assembled transaction holds the built
\* message and the sequence that GET returned, the sign_doc is built from the
\* assembled transaction and the account number that GET returned, and a POST
\* carries a transaction with one signature.
C7_PipelineOrder ==
    \A p \in Ops :
        IsCreate(p) =>
            /\ IsSome(gotAccount[p]) => restGets[p] = 1 /\ IsSome(restAnswer[p])
            /\ IsSome(assembled[p]) =>
                   /\ IsSome(gotAccount[p])
                   /\ build_msg(Get(call[p])).ok
                   /\ Get(assembled[p]).body.messages = <<Get(build_msg(Get(call[p])).val)>>
                   /\ Get(assembled[p]).auth_info.signer_infos[1].sequence
                          = Str(Get(gotAccount[p]).sequence)
                   /\ Len(Get(assembled[p]).signatures) = 0
            /\ IsSome(signDoc[p]) =>
                   /\ IsSome(assembled[p])
                   /\ Get(signDoc[p]).account_number.data
                          = Str(Get(gotAccount[p]).account_number)
                   /\ Get(signDoc[p]).auth_info_bytes.data[2] = Get(assembled[p]).auth_info
            /\ Len(rpcPosts[p]) > 0 =>
                   /\ IsSome(signDoc[p])
                   /\ Len(rpcPosts[p][1].params.tx[2][2].signatures) = 1

\* A create_* call that resolved sequence 3, the sequence a transaction
\* committed before it had moved the account to, and went on to signing.
C7_Witness ==
    \E p \in Ops :
        /\ IsCreate(p) /\ Done(p)
        /\ IsSome(assembled[p]) /\ IsSome(signDoc[p])
        /\ Get(gotAccount[p]).sequence = InitSequenceOf(W1.address) + 1
        /\ CallAddress(p) = W1.address

\* ---------------------------------------------------------------------- C8
\* The step of create_* call p that failed before the broadcast, if any: the
\* result of the account query, or of the last step of the pipeline.
FailedStep(p) ==
    LET info == account_info(Get(restAnswer[p]))
    IN IF ~info.ok THEN info
       ELSE pipeline(Get(transaction_signer), ChainId, Get(call[p]), Get(info.val),
                     "n1").signed

\* C8: a create_* call whose account resolution, message building, assembly
\* or signing failed ends by raising that step's exception, has sent no POST
\* and leaves no signed transaction behind: its local is gone and the signer
\* holds its three configuration attributes only.
C8_FailureAborts ==
    \A p \in Ops :
        (IsCreate(p) /\ Done(p) /\ IsSome(restAnswer[p]) /\ ~FailedStep(p).ok)
        => /\ Out(p).kind = "raise"
           /\ Out(p).exc = FailedStep(p).exc
           /\ Len(rpcPosts[p]) = 0
           /\ IsNone(signed_tx[p])
           /\ transaction_signer = Some(NewSigner(RpcEndpoint, ChainId))

\* One create_* call failed in signing and another in account resolution.
C8_Witness ==
    \E p, q \in Ops :
        /\ IsCreate(p) /\ Done(p) /\ IsSome(assembled[p]) /\ Out(p).exc = "TypeError"
        /\ IsCreate(q) /\ Done(q) /\ IsSome(restAnswer[q]) /\ IsNone(gotAccount[q])
        /\ Out(q).exc = "ClientResponseError"

\* ---------------------------------------------------------------------- C9
\* C9: a create_* call whose account query found no account (a 404, or a
\* response without "account") raises an error that tells so and assembles
\* nothing.
C9_UnknownAccountFlagged ==
    \A p \in Ops :
        (/\ IsCreate(p) /\ Done(p)
         /\ IsSome(restAnswer[p])
         /\ Get(restAnswer[p]).transport = "ok"
         /\ \/ Get(restAnswer[p]).status = 404
            \/ /\ Get(restAnswer[p]).status = 200
               /\ "account" \notin DOMAIN Get(restAnswer[p]).body)
        => /\ Out(p).kind = "raise"
           /\ Out(p).exc \in {"UnknownAccountError", "ClientResponseError"}
           /\ IsNone(gotAccount[p])
           /\ IsNone(assembled[p])

\* --------------------------------------------------------------------- C10
\* What _get_account_info returns for address a when nothing else has run.
AloneInfo(a) ==
    IF a \in OnChain
    THEN [account_number |-> AccountNumberOf(a), sequence |-> InitSequenceOf(a)]
    ELSE [account_number |-> 0, sequence |-> 0]

\* create_* call c run alone through a fresh client, with nonce k.
Alone(c, k) ==
    pipeline(NewSigner(RpcEndpoint, ChainId), ChainId, c, AloneInfo(c.wallet.address), k)

\* C10: a create_* call whose account no other call is about resolves,
\* assembles, builds the sign_doc, fails or posts as it would alone,
\* whatever the calls of other accounts did.
C10_IndependentAccounts ==
    \A p \in Ops :
        (/\ IsCreate(p)
         /\ IsSome(gotAccount[p])
         /\ \A q \in Ops \ {p} : IsSome(call[q]) => CallAddress(q) # CallAddress(p))
        => /\ gotAccount[p] = Some(AloneInfo(CallAddress(p)))
           /\ assembled[p] = Alone(Get(call[p]), "n1").transaction
           /\ signDoc[p] = Alone(Get(call[p]), "n1").sign_doc
           /\ (Done(p) /\ Len(rpcPosts[p]) = 0) =>
                  Out(p) = raised(Alone(Get(call[p]), "n1").signed)
           /\ Len(rpcPosts[p]) > 0 =>
                  \E k \in Nonces :
                      /\ Alone(Get(call[p]), k).signed.ok
                      /\ rpcPosts[p] = broadcast_posts(Get(broadcast_data(
                             Get(Alone(Get(call[p]), k).signed.val)).val))

\* A create_* call of W2 got as far as signing after a transaction of W1 was
\* committed.
C10_Witness ==
    \E p, q \in Ops :
        /\ IsCreate(p) /\ Done(p) /\ CallAddress(p) = W2.address
        /\ IsSome(assembled[p]) /\ IsSome(signDoc[p])
        /\ q \in committed /\ CallAddress(q) = W1.address
        /\ chainSeq[W1.address] = InitSequenceOf(W1.address) + 1

\* --------------------------------------------- claims on the library calls
IsLibCall(p, kind) == IsSome(call[p]) /\ Get(call[p]).kind = kind

\* --------------------------------------------------------------------- C11
\* C11: create_transaction raises and returns no transaction when messages
\* is empty or gas_limit is not positive, and returns one otherwise.
C11_AssemblyValidation ==
    \A p \in Ops :
        (Done(p) /\ IsLibCall(p, "create_transaction"))
        => IF Len(Get(call[p]).messages) = 0 \/ Get(Get(call[p]).gas_limit) <= 0
           THEN Out(p).kind = "raise" /\ IsNone(Out(p).value)
           ELSE Out(p).kind = "return"

\* --------------------------------------------------------------------- C12
\* gas_price * gas_limit rounded up to a whole number, for a product >= 0
\* given in thousandths.
CeilOfMilli(milli) == (milli + 999) \div 1000

\* C12: for a positive gas_limit the fee amount create_transaction embeds is
\* ceil(gas_price * gas_limit).
C12_FeeRoundsUp ==
    \A p \in Ops :
        (/\ Done(p) /\ IsLibCall(p, "create_transaction")
         /\ Get(Get(call[p]).gas_limit) > 0
         /\ Out(p).kind = "return")
        => Get(Out(p).value).auth_info.fee.amount[1].amount
               = Str(CeilOfMilli(ParseMilli(Remove(Get(call[p]).signer.gas_price, UAKT))
                                 * Get(Get(call[p]).gas_limit)))

\* --------------------------------------------------------------------- C13
\* C13: a sign_transaction call returns the transaction with as many
\* signatures as signer_infos, exactly one.
C13_OneSignaturePerSigner ==
    \A p \in Ops :
        (Done(p) /\ IsLibCall(p, "sign_transaction"))
        => /\ Out(p).kind = "return"
           /\ Len(Get(Out(p).value).signatures)
                  = Len(Get(Out(p).value).auth_info.signer_infos)
           /\ Len(Get(Out(p).value).signatures) = 1

\* --------------------------------------------------------------------- C14
\* C14: two sign_transaction calls on transactions that differ in the
\* sequence only have different auth_info encodings and return different
\* signatures.
C14_SequenceSensitivity ==
    \A p, q \in Ops :
        (/\ p # q
         /\ Done(p) /\ IsLibCall(p, "sign_transaction")
         /\ Done(q) /\ IsLibCall(q, "sign_transaction")
         /\ Get(call[p]).transaction.body = Get(call[q]).transaction.body
         /\ SignerSequence(Get(call[p]).transaction)
                # SignerSequence(Get(call[q]).transaction))
        => /\ encode_auth_info(Get(call[p]).transaction.auth_info)
                  # encode_auth_info(Get(call[q]).transaction.auth_info)
           /\ Out(p).kind = "return" /\ Out(q).kind = "return"
           /\ Get(Out(p).value).signatures # Get(Out(q).value).signatures

\* --------------------------------------------------------------------- C15
\* C15: two sign_transaction calls with the same wallet, transaction and
\* tx_info return the same signature.
C15_DeterministicSigning ==
    \A p, q \in Ops :
        (/\ p # q
         /\ Done(p) /\ IsLibCall(p, "sign_transaction")
         /\ Done(q) /\ IsLibCall(q, "sign_transaction")
         /\ call[p] = call[q])
        => /\ Out(p).kind = "return" /\ Out(q).kind = "return"
           /\ Get(Out(p).value).signatures = Get(Out(q).value).signatures

\* --------------------------------------------------------------------- C16
\* The bytes sign_transaction signs for a transaction and a tx_info.
SigningPayload(transaction, tx_info) ==
    json_dumps_sign_doc(sign_doc_of(Get(encode_body(transaction.body).val),
                                    Get(encode_auth_info(transaction.auth_info).val),
                                    tx_info))

\* Two transactions with the same field values, whatever the order in which
\* the keys of their dicts were inserted.
LogicallyEqual(t1, t2) ==
    /\ t1.auth_info = t2.auth_info
    /\ Len(t1.body.messages) = Len(t2.body.messages)
    /\ \A i \in 1..Len(t1.body.messages) :
           CanonMessage(t1.body.messages[i]) = CanonMessage(t2.body.messages[i])

\* C16: for two sign_transaction calls on logically equal transactions the
\* body bytes, the auth_info bytes and the signing payload are the same
\* bytes.
C16_CanonicalizationStable ==
    \A p, q \in Ops :
        (/\ Done(p) /\ IsLibCall(p, "sign_transaction")
         /\ Done(q) /\ IsLibCall(q, "sign_transaction")
         /\ Get(call[p]).tx_info = Get(call[q]).tx_info
         /\ LogicallyEqual(Get(call[p]).transaction, Get(call[q]).transaction))
        => /\ encode_body(Get(call[p]).transaction.body)
                  = encode_body(Get(call[q]).transaction.body)
           /\ encode_auth_info(Get(call[p]).transaction.auth_info)
                  = encode_auth_info(Get(call[q]).transaction.auth_info)
           /\ SigningPayload(Get(call[p]).transaction, Get(call[p]).tx_info).ok
           /\ SigningPayload(Get(call[p]).transaction, Get(call[p]).tx_info)
                  = SigningPayload(Get(call[q]).transaction, Get(call[q]).tx_info)

\* --------------------------------------------------------------------- C17
\* C17: the transaction create_transaction returns for a non-empty list of
\* messages holds that list in that order; the body bytes signing encodes
\* and the transaction in the broadcast envelope list the same messages in
\* the same order; a sign_transaction call that returns a transaction
\* returns it with the messages it was given.
C17_MessageOrderPreserved ==
    \A p \in Ops :
        /\ (/\ Done(p) /\ IsLibCall(p, "create_transaction")
            /\ Len(Get(call[p]).messages) > 0)
           => /\ Out(p).kind = "return"
              /\ Get(Out(p).value).body.messages = Get(call[p]).messages
              /\ LET encoded == Get(encode_body(Get(Out(p).value).body).val).data[2].messages
                 IN /\ Len(encoded) = Len(Get(call[p]).messages)
                    /\ \A i \in 1..Len(encoded) :
                           encoded[i] = CanonMessage(Get(call[p]).messages[i])
              /\ Get(broadcast_data(Get(Out(p).value)).val).params.tx[2][2].body.messages
                     = Get(call[p]).messages
        /\ (Done(p) /\ IsLibCall(p, "sign_transaction") /\ Out(p).kind = "return")
           => Get(Out(p).value).body.messages = Get(call[p]).transaction.body.messages

\* Two create_transaction calls returned, one for a lease message followed by
\* a bid message and one for the two in the other order.
C17_Witness ==
    \E p, q \in Ops :
        /\ Done(p) /\ IsLibCall(p, "create_transaction") /\ Out(p).kind = "return"
        /\ Get(Out(p).value).body.messages = <<MsgLease, MsgBid>>
        /\ Done(q) /\ IsLibCall(q, "create_transaction") /\ Out(q).kind = "return"
        /\ Get(Out(q).value).body.messages = <<MsgBid, MsgLease>>

\* --------------------------------------------------------------------- C18
\* C18: a sign_transaction call returns a transaction whose signature is one
\* of the wallet's key over the SHA-256 digest, taken once, of the signing
\* payload recomputed from the transaction.
C18_SignatureValid ==
    \A p \in Ops :
        (Done(p) /\ IsLibCall(p, "sign_transaction"))
        => /\ Out(p).kind = "return"
           /\ Len(Get(Out(p).value).signatures) = 1
           /\ Get(Out(p).value).signatures[1][2].key = Get(call[p]).wallet.private_key
           /\ SigningPayload(Get(Out(p).value), Get(call[p]).tx_info).ok
           /\ Get(Out(p).value).signatures[1][2].digest
                  = SHA256(Get(SigningPayload(Get(Out(p).value), Get(call[p]).tx_info).val))

\* --------------------------------------------------------------------- C19
\* An amount whose numeric part parses and whose denomination is the native
\* unit: digits, then "uakt".
ValidAmount(x) ==
    /\ Len(x) > Len(UAKT)
    /\ SubSeq(x, Len(x) - Len(UAKT) + 1, Len(x)) = UAKT
    /\ IntParses(SubSeq(x, 1, Len(x) - Len(UAKT)))

\* The amount a create_deployment_msg or create_bid_msg call was given, and
\* the amount entry of the message it returned.
AmountGiven(p) ==
    IF Get(call[p]).kind = "create_deployment_msg"
    THEN Get(Get(call[p]).deposit) ELSE Get(Get(call[p]).price)
AmountReturned(p) ==
    IF Get(call[p]).kind = "create_deployment_msg"
    THEN Get(Out(p).value).deposit ELSE Get(Out(p).value).price

\* C19: create_deployment_msg and create_bid_msg raise and return no message
\* for an amount that is not valid; a returned message has a numeric amount
\* and the native denomination, the one the caller gave.
C19_AmountValidation ==
    \A p \in Ops :
        (/\ Done(p)
         /\ IsLibCall(p, "create_deployment_msg") \/ IsLibCall(p, "create_bid_msg"))
        => IF ValidAmount(AmountGiven(p))
           THEN /\ Out(p).kind = "return"
                /\ AmountReturned(p).amount \o <<"u", "a", "k", "t">> = AmountGiven(p)
                /\ AmountReturned(p).denom = "uakt"
           ELSE Out(p).kind = "raise" /\ IsNone(Out(p).value)

\* --------------------------------------------------------------------- C20
IsNotSpace(c) == c # " "

\* The hex string decodes to exactly 32 bytes.
DecodesTo32Bytes(h) ==
    /\ Len(SelectSeq(h, IsNotSpace)) = 2 * 32
    /\ \A i \in 1..Len(h) : h[i] = " " \/ IsHex(h[i])
    /\ fromhex(h).ok

\* The bytes are a scalar of the curve: a number in 1..n-1.
ValidScalar(bytes) ==
    /\ \E i \in 1..Len(bytes) : bytes[i] # 0
    /\ BytesLess(bytes, CurveOrder)

\* from_private_key raises an exception of class excName and returns no
\* wallet unless the hex string decodes to 32 bytes that are a valid scalar;
\* the wallet it returns has those 32 bytes as private_key, the 33-byte
\* compressed point of that key as public_key and the address of that
\* public_key.
KeyValidated(excName) ==
    \A p \in Ops :
        (Done(p) /\ IsLibCall(p, "from_private_key"))
        => LET h == Get(call[p]).private_key_hex
           IN IF /\ libs.crypto
                 /\ DecodesTo32Bytes(h)
                 /\ ValidScalar(Get(fromhex(h).val))
              THEN /\ Out(p).kind = "return"
                   /\ Get(Out(p).value).private_key = Get(fromhex(h).val)
                   /\ Len(Get(Out(p).value).private_key) = 32
                   /\ Len(Get(Out(p).value).public_key) = 33
                   /\ Get(Out(p).value).public_key[1] \in {2, 3}
                   /\ Get(Out(p).value).public_key
                          = compressed_public_key(
                                verifying_key_to_string(Get(Out(p).value).private_key))
                   /\ Get(Out(p).value).address = AddressOf(Get(Out(p).value).public_key)
              ELSE /\ Out(p).kind = "raise"
                   /\ IsNone(Out(p).value)
                   /\ Out(p).exc = excName

\* C20: from_private_key fails with InvalidKeyError and returns no wallet
\* whenever the hex string does not decode to exactly 32 bytes or is not a
\* valid scalar of the curve; a returned wallet has a 32-byte private_key,
\* the 33-byte compressed public_key derived from it and the address derived
\* from public_key.
C20_KeyValidation == KeyValidated("InvalidKeyError")

\* The same with the exception class the code raises.
KeyValidationWrapped == KeyValidated("AkashTransactionError")

\* One call returned the wallet of the largest scalar, n - 1, and another
\* raised for the scalar n.
KeyValidationWitness ==
    \E p, q \in Ops :
        /\ Done(p) /\ IsLibCall(p, "from_private_key") /\ Out(p).kind = "return"
        /\ Get(Out(p).value).private_key = [CurveOrder EXCEPT ![32] = 64]
        /\ Len(Get(Out(p).value).public_key) = 33
        /\ Done(q) /\ IsLibCall(q, "from_private_key") /\ Out(q).kind = "raise"
        /\ Get(call[q]).private_key_hex = HexOf(CurveOrder)

\* ------------------------------------- claims on capabilities and lifecycle
\* --------------------------------------------------------------------- C21
\* C21: no signer exists whose broadcast_transaction fails because the HTTP
\* client library is missing, and no client has entered its context without
\* the libraries its calls need: the lack shows at construction.
C21_FailFastCapability ==
    /\ \A p \in Ops :
           (Done(p) /\ IsBroadcast(p))
           => ~(Out(p).kind = "raise" /\ Out(p).exc = "ImportError")
    /\ ctx = "entered" => libs.aiohttp

\* --------------------------------------------------------------------- C22
\* C22: a query_deployments call on a client with a non-negative max_retries
\* makes at most max_retries attempts, sleeps 2^attempt seconds after each
\* failed attempt but the last, and ends either returning a response
\* dictionary or raising AkashGrpcClientError after the last attempt; it
\* never returns None.
C22_BoundedRetry ==
    \A p \in Ops :
        (Done(p) /\ IsLibCall(p, "query_deployments"))
        => LET max_retries == Get(grpc_client).max_retries
               run == retry_loop(max_retries, 0, <<>>)
           IN /\ run.attempts <= max_retries
              /\ \A i \in 1..Len(run.sleeps) : run.sleeps[i] = 2 ^ (i - 1)
              /\ Len(run.sleeps) < max_retries \/ max_retries = 0
              /\ \/ /\ Out(p).kind = "return"
                    /\ IsSome(Out(p).value)
                    /\ "deployments" \in DOMAIN Get(Out(p).value)
                 \/ /\ Out(p).kind = "raise"
                    /\ Out(p).exc = "AkashGrpcClientError"
                    /\ run.attempts = max_retries

\* --------------------------------------------------------------------- C23
\* C23: the step by which the client's context is left, be it __aexit__ or an
\* __aenter__ that raises, leaves no HTTP session and no gRPC channel open.
C23_GuaranteedRelease ==
    [][(ctx \notin {"exited", "enter_failed"} /\ ctx' \in {"exited", "enter_failed"})
       => /\ rest_session' # "open"
          /\ \A i \in 1..Len(channels') : channels'[i].state # "open"]_vars

\* --------------------------------------------------------------------- C24
OpenChannels == {i \in 1..Len(channels) : channels[i].state = "open"}

\* The step begins a call of kind k on the gRPC client.
Begins(k) ==
    \E p \in Ops : pc[p] = "idle" /\ pc'[p] # "idle" /\ Get(call'[p]).kind = k

\* The step ends a call of kind k on the gRPC client.
Ends(k) ==
    \E p \in Ops : pc[p] # "done" /\ pc'[p] = "done" /\ Get(call'[p]).kind = k

\* C24: on one AkashGrpcClient whose calls are made one after another, at
\* most one channel is open and it is the client's; a query_*, stream or
\* health_check call made while the client has a channel uses that channel and
\* makes none; one made after close() makes a fresh channel; close() ends with
\* the channel closed and the client without one, and a close() on a client
\* without a channel changes nothing.
C24_ChannelLifecycle ==
    /\ [](IsSome(grpc_client)
          => /\ Cardinality(OpenChannels) <= 1
             /\ OpenChannels \subseteq (IF IsSome(Get(grpc_client).channel)
                                       THEN {Get(Get(grpc_client).channel)}
                                       ELSE {}))
    /\ [][(/\ IsSome(grpc_client)
           /\ \E k \in QueryKinds \cup {"stream_deployment_events", "health_check"} :
                  Begins(k))
          => IF IsSome(Get(grpc_client).channel)
             THEN /\ Get(grpc_client').channel = Get(grpc_client).channel
                  /\ channels' = channels
                  /\ Get(Get(grpc_client).channel) \in OpenChannels
             ELSE /\ Get(grpc_client').channel = Some(Len(channels) + 1)
                  /\ Len(channels') = Len(channels) + 1
                  /\ SubSeq(channels', 1, Len(channels)) = channels
                  /\ channels'[Len(channels')].state = "open"]_vars
    /\ [][(IsSome(grpc_client) /\ Ends("close"))
          => /\ IsNone(Get(grpc_client').channel)
             /\ \A i \in 1..Len(channels') : channels'[i].state = "closed"
             /\ IsNone(Get(grpc_client).channel)
                    => grpc_client' = grpc_client /\ channels' = channels]_vars

\* A first channel was closed and a second one, made by the call after the
\* close, has served two calls.
C24_Witness ==
    /\ IsSome(grpc_client)
    /\ Len(channels) = 2
    /\ channels[1].state = "closed"
    /\ channels[2].state = "open"
    /\ Get(grpc_client).channel = Some(2)
    /\ Get(grpc_client).deployment_stub = Some(2)
    /\ Get(grpc_client).provider_stub = Some(2)
    /\ \E p \in Ops : Done(p) /\ IsLibCall(p, "query_providers")

\* --------------------------------------------------------------------- C25
StubNames == {"deployment_stub", "market_stub", "provider_stub", "cert_stub"}

\* C25: every service stub the gRPC client has cached is bound to the
\* client's current channel, and that channel is open; so the stub a query
\* has just used is one of an open channel.
C25_StubsOnCurrentChannel ==
    IsSome(grpc_client)
    => /\ \A stub \in StubNames :
              IsSome(Get(grpc_client)[stub])
              => /\ Get(grpc_client)[stub] = Get(grpc_client).channel
                 /\ Get(Get(grpc_client)[stub]) \in OpenChannels
       /\ \A p \in Ops :
              (Done(p) /\ IsSome(call[p]) /\ Get(call[p]).kind \in QueryKinds)
              => Get(Get(grpc_client)[StubOf(Get(call[p]).kind)]) \in OpenChannels

\* --------------------------------------------------------------------- C26
\* C26: a get_* or create_* call made while the client is not inside its
\* context (before __aenter__ or after __aexit__) raises
\* AkashAsyncClientError at once and sends no HTTP request.
C26_OnlyInsideContext ==
    [][\A p \in Ops :
          (/\ pc[p] = "idle" /\ pc'[p] # "idle"
           /\ ctx \in {"new", "exited"}
           /\ Get(call'[p]).kind \in GetKinds \cup CreateKinds)
          => /\ pc'[p] = "done"
             /\ Get(outcome'[p]).kind = "raise"
             /\ Get(outcome'[p]).exc = "AkashAsyncClientError"
             /\ restGets'[p] = restGets[p]]_vars

\* --------------------------------------------------------------------- C27
ClientGrpcKinds == ClientQueryKinds \cup {"client_stream_deployment_events"}

\* C27: on a client made without an rpc_endpoint every create_* call raises
\* AkashAsyncClientError with no account query and no broadcast sent; on a
\* client made without a grpc_endpoint every grpc_query_* call and every
\* stream_deployment_events iteration raises AkashAsyncClientError with no
\* gRPC client and no channel made.
C27_GuardBeforeIO ==
    \A p \in Ops :
        /\ (Done(p) /\ IsCreate(p) /\ IsNone(rpc_endpoint))
           => /\ Out(p).kind = "raise"
              /\ Out(p).exc = "AkashAsyncClientError"
              /\ restGets[p] = 0
              /\ IsNone(restAnswer[p])
              /\ rpcPosts[p] = <<>>
        /\ (/\ pc[p] # "idle" /\ IsSome(call[p])
            /\ Get(call[p]).kind \in ClientGrpcKinds
            /\ IsNone(grpc_endpoint))
           => /\ Done(p)
              /\ Out(p).kind = "raise"
              /\ Out(p).exc = "AkashAsyncClientError"
              /\ IsNone(grpc_client)
              /\ channels = <<>>

\* On a client made with neither endpoint, a create_* call and a
\* grpc_query_* call have both been refused.
C27_Witness ==
    /\ IsNone(rpc_endpoint) /\ IsNone(grpc_endpoint)
    /\ \E p, q \in Ops :
          /\ Done(p) /\ IsCreate(p) /\ Out(p).exc = "AkashAsyncClientError"
          /\ Done(q) /\ Get(call[q]).kind \in ClientQueryKinds
          /\ Out(q).exc = "AkashAsyncClientError"

\* ---------------------------------------------- claims on what was signed
\* --------------------------------------------------------------------- C28
\* Call p goes on from its account query by this step, no other call is
\* running, the node has answered with the account, and the call's
\* arguments make a message and carry a gas limit.
ResumesAlone(p) ==
    /\ pc[p] = "resolving" /\ pc'[p] # "resolving"
    /\ \A q \in Ops \ {p} : pc[q] \in {"idle", "done"}
    /\ IsSome(gotAccount'[p])
    /\ "account" \in DOMAIN Get(restAnswer'[p]).body
    /\ build_msg(Get(call[p])).ok
    /\ IsSome(Get(call[p]).gas_limit)

AssemblyTxInfo(transaction, tx_info) ==
    [tx_info EXCEPT !.sequence = SignerSequence(transaction)]

\* C29: a sign_transaction call given a tx_info whose sequence is not the one
\* of the assembly yields a signing payload, the same as with the tx_info of
\* the assembly, and returns the transaction with the signer_info sequence as
\* assembled.
C29_SignedSequenceIsAssembled ==
    \A p \in Ops :
        (/\ Done(p) /\ IsLibCall(p, "sign_transaction")
         /\ Get(call[p]).tx_info.sequence # SignerSequence(Get(call[p]).transaction))
        => LET c == Get(call[p])
           IN /\ SigningPayload(c.transaction, c.tx_info).ok
              /\ SigningPayload(c.transaction, c.tx_info)
                     = SigningPayload(c.transaction, AssemblyTxInfo(c.transaction, c.tx_info))
              /\ Out(p).kind = "return"
              /\ SignerSequence(Get(Out(p).value)) = SignerSequence(c.transaction)

\* --------------------------------------------------------------------- C30
\* A sign_transaction call on a signer returns the transaction it was given
\* with a signature in "signatures" and every other entry as it was.
SignsInPlace(p) ==
    LET c == Get(call[p])
    IN /\ Out(p).kind = "return"
       /\ DOMAIN Get(Out(p).value) = DOMAIN c.transaction
       /\ Get(Out(p).value).body = c.transaction.body
       /\ Get(Out(p).value).auth_info = c.transaction.auth_info
       /\ Len(Get(Out(p).value).signatures) = 1

\* A step of a broadcast_transaction call (its start, or the end of its
\* POST) leaves the caller's transaction and the configuration of the signer
\* as they were, and the transaction it sends is the one it was given.
BroadcastFrame(p) ==
    (/\ pc'[p] # pc[p]
     /\ IsSome(call'[p]) /\ Get(call'[p]).kind = "broadcast_transaction")
    => /\ pc[p] = "broadcasting" => call'[p] = call[p]
       /\ pc'[p] = "broadcasting" => Get(signed_tx'[p]) = Get(call'[p]).signed_tx
       /\ transaction_signer' = transaction_signer
       /\ rpc_endpoint' = rpc_endpoint

\* C30: sign_transaction returns the transaction it was given with nothing
\* but "signatures" changed, and a step of broadcast_transaction changes
\* neither the signed transaction nor the signer's configuration.
C30_SigningFrame ==
    /\ [](\A p \in Ops : (Done(p) /\ IsSync(p) /\ Get(call[p]).kind = "sign_transaction")
                         => SignsInPlace(p))
    /\ [][\A p \in Ops : BroadcastFrame(p)]_vars

====
